---- MODULE Spec2Model ----
(***************************************************************************)
(* A model of n34's status-resolution protocol and of its status-transition *)
(* commands: the status events kept by the relays, the authorized signer    *)
(* set, the reduction of the fetched status events to one status, the       *)
(* guards of the transition commands, the status event they build and the   *)
(* publication of that event.                                               *)
(***************************************************************************)
EXTENDS Integers, Sequences, FiniteSets, TLC

VARIABLES
    store,      \* the status events the relays hold (the event store)
    res,        \* what the last status query returned
    family,     \* the entity family the commands of this run work on
    naddrs,     \* the repository coordinates given to the commands
    repoStore,  \* the coordinates whose announcement the relays hold
    last,       \* what the last command did
    cmd,        \* the command in progress, step by step
    net         \* what the relays did with the last published event

vars == <<store, res, family, naddrs, repoStore, last, cmd, net>>

(***************************************************************************)
(* Bounds of the model.                                                    *)
(***************************************************************************)
\* the largest number of status events an event store drawn as an input holds
MaxStore == 2
\* the largest created_at of a status event drawn as an input
MaxTime == 2
\* the largest number of status events the commands of one run publish
MaxPublished == 2

(***************************************************************************)
(* Kinds of the status events (NIP-34).                                    *)
(***************************************************************************)
GitStatusOpen == 1630
GitStatusApplied == 1631
GitStatusClosed == 1632
GitStatusDraft == 1633

\* a total order on the public keys and relay URLs of the model (Ord of the
\* Rust types), used where the code sorts
Rank(x) ==
    CASE x = "a" -> 1
      [] x = "m" -> 2
      [] x = "o" -> 3
      [] x = "x" -> 4
      [] x = "wss://r1" -> 5
      [] x = "wss://r2" -> 6
      [] x = "wss://r3" -> 7
      [] x = "wss://r4" -> 8
      [] x = "wss://r5" -> 9
      [] x = "wss://r6" -> 10
      [] OTHER -> 11

ToSet(seq) == {seq[i] : i \in 1..Len(seq)}

RECURSIVE SortedSeq(_)
\* the elements of a finite set as a sequence in ascending Rank order
SortedSeq(S) ==
    IF S = {} THEN <<>>
    ELSE LET least == CHOOSE x \in S : \A y \in S : Rank(x) <= Rank(y)
         IN <<least>> \o SortedSeq(S \ {least})

\* utils::dedup with the sort left out: what a bug that only collects would return
dedup_unsorted(seq) == seq

\* utils::dedup: collect, sort_unstable, dedup (adjacent duplicates removed)
dedup(seq) == SortedSeq(ToSet(seq))

(***************************************************************************)
(* Status <-> kind.                                                        *)
(***************************************************************************)
\* PatchPrStatus::kind
PatchPrStatus_kind(s) ==
    CASE s = "Open" -> GitStatusOpen
      [] s = "MergedApplied" -> GitStatusApplied
      [] s = "Closed" -> GitStatusClosed
      [] s = "Draft" -> GitStatusDraft

\* PatchPrStatus::all_kinds
PatchPrStatus_all_kinds ==
    {PatchPrStatus_kind("Open"), PatchPrStatus_kind("MergedApplied"),
     PatchPrStatus_kind("Closed"), PatchPrStatus_kind("Draft")}

\* TryFrom<Kind> for PatchPrStatus with a catch-all arm that answers Open
PatchPrStatus_try_from_default_open(kind) ==
    CASE kind = GitStatusApplied -> "MergedApplied"
      [] kind = GitStatusClosed -> "Closed"
      [] kind = GitStatusDraft -> "Draft"
      [] OTHER -> "Open"

\* TryFrom<Kind> for PatchPrStatus
PatchPrStatus_try_from(kind) ==
    CASE kind = GitStatusOpen -> "Open"
      [] kind = GitStatusApplied -> "MergedApplied"
      [] kind = GitStatusClosed -> "Closed"
      [] kind = GitStatusDraft -> "Draft"
      [] OTHER -> "InvalidPatchStatus"

\* IssueStatus::kind
IssueStatus_kind(s) ==
    CASE s = "Open" -> GitStatusOpen
      [] s = "Resolved" -> GitStatusApplied
      [] s = "Closed" -> GitStatusClosed

\* TryFrom<Kind> for IssueStatus
IssueStatus_try_from(kind) ==
    CASE kind = GitStatusOpen -> "Open"
      [] kind = GitStatusApplied -> "Resolved"
      [] kind = GitStatusClosed -> "Closed"
      [] OTHER -> "InvalidIssueStatus"

(***************************************************************************)
(* Tags and events.                                                        *)
(***************************************************************************)
\* a tag: its kind k, its primary value v and, for an `e` tag, its marker m
Tag(k, v, m) == [k |-> k, v |-> v, m |-> m]

\* utils::event_reply_tag (the relay hint is not part of what is read back)
event_reply_tag(reply_to, marker) == Tag("e", reply_to, marker)

\* Tag::is_reply
is_reply(t) == t.k = "e" /\ t.m = "reply"

\* Tag::is_root
is_root(t) == t.k = "e" /\ t.m = "root"

\* a status event as the relays keep it
StatusEvent(kind, pubkey, created_at, tags) ==
    [kind |-> kind, pubkey |-> pubkey, created_at |-> created_at, tags |-> tags]

(***************************************************************************)
(* The event store gateway: Filter::event(id).kinds(..).authors(..).       *)
(***************************************************************************)
\* the filter with the authors condition left out
fetch_events_any_author(st, id, kinds, authors) ==
    {e \in st : /\ e.kind \in kinds
                /\ \E i \in 1..Len(e.tags) : e.tags[i].k = "e" /\ e.tags[i].v = id}

\* the events of the store that match the filter: an `e` tag with the id
\* (whatever its marker), one of the kinds, one of the authors
fetch_events(st, id, kinds, authors) ==
    {e \in st : /\ e.kind \in kinds
                /\ e.pubkey \in ToSet(authors)
                /\ \E i \in 1..Len(e.tags) : e.tags[i].k = "e" /\ e.tags[i].v = id}

RECURSIVE Orders(_)
\* every order in which the relays may return a set of events
Orders(S) ==
    IF S = {} THEN {<<>>}
    ELSE UNION {{<<e>> \o rest : rest \in Orders(S \ {e})} : e \in S}

\* Iterator::max_by_key taking the first of the events (arrival order) instead
max_by_key_first(fetched) == fetched[1]

\* Iterator::max_by_key(|e| e.created_at): the last of the maximal elements
max_by_key(fetched) ==
    LET i == CHOOSE i \in 1..Len(fetched) :
                 /\ \A j \in 1..Len(fetched) : fetched[j].created_at <= fetched[i].created_at
                 /\ \A j \in (i+1)..Len(fetched) : fetched[j].created_at < fetched[i].created_at
    IN fetched[i]

\* the kinds fetch_issue_status asks for
IssueStatusKinds == {GitStatusOpen, GitStatusApplied, GitStatusClosed}

\* NostrClient::fetch_issue_status, given what the relays returned
fetch_issue_status(fetched) ==
    IF fetched = <<>> THEN "Open"
    ELSE IssueStatus_try_from(max_by_key(fetched).kind)

\* NostrClient::fetch_pr_status, given what the relays returned
fetch_pr_status(fetched) ==
    IF fetched = <<>> THEN "Open"
    ELSE PatchPrStatus_try_from(max_by_key(fetched).kind)

\* fetch_patch_status with the revision closure applied to every root status
fetch_patch_status_always_closed(fetched, root_revision) ==
    IF root_revision # "none" THEN "Closed" ELSE fetch_pr_status(fetched)

\* fetch_patch_status with the revision closure left out
fetch_patch_status_no_closure(fetched, root_revision) == fetch_pr_status(fetched)

\* NostrClient::fetch_patch_status, given what the relays returned
fetch_patch_status(fetched, root_revision) ==
    LET root_status == IF fetched = <<>> THEN "Open"
                       ELSE PatchPrStatus_try_from(max_by_key(fetched).kind)
        event_tags == IF fetched = <<>> THEN <<>> ELSE max_by_key(fetched).tags
    IN IF /\ root_revision # "none"
          /\ root_status = "MergedApplied"
          /\ ~ \E i \in 1..Len(event_tags) :
                   is_reply(event_tags[i]) /\ event_tags[i].v = root_revision
       THEN "Closed"
       ELSE root_status

(***************************************************************************)
(* Status resolution on an arbitrary event store: the store is an input,   *)
(* drawn from the bounded set of stores, and one query is applied to it.   *)
(***************************************************************************)
\* the entity whose status is asked for, another entity, and two revisions
\* of the entity (when it is a root patch)
RootId == "E1"
OtherId == "E2"
Revisions == {"V", "W"}

\* the signers of the status events of an input store
ResolveKeys == {"m", "a", "x"}

\* the authorized_pubkeys lists given to a query (the first names a key twice)
AuthInputs == {<<"m", "a", "m">>, <<"a">>}

\* the status events an input store is drawn from
ResolveUniverse ==
    {StatusEvent(k, p, t, tg) :
        k \in PatchPrStatus_all_kinds, p \in ResolveKeys, t \in 1..MaxTime,
        tg \in {<<event_reply_tag(RootId, "root")>>,
                <<event_reply_tag(RootId, "root"), event_reply_tag("V", "reply")>>}}
    \cup {StatusEvent(GitStatusClosed, "m", t, <<event_reply_tag(OtherId, "root")>>) :
             t \in 1..MaxTime}

RECURSIVE StoresUpTo(_)
\* the stores of at most n events
StoresUpTo(n) ==
    IF n = 0 THEN {{}}
    ELSE LET S == StoresUpTo(n - 1)
         IN S \cup {s \cup {e} : s \in S, e \in ResolveUniverse}

NoRes == [fn |-> "none"]
NoLast == [op |-> "none"]
NoCmd == [pc |-> "idle"]
NoNet == [sent |-> FALSE]

InitResolve ==
    /\ store \in StoresUpTo(MaxStore)
    /\ res = NoRes
    /\ family = "none"
    /\ naddrs = <<>>
    /\ repoStore = {}
    /\ last = NoLast
    /\ cmd = NoCmd
    /\ net = NoNet

\* the record of a query: the function, its arguments, what the relays
\* returned (in arrival order) and the status the function computed
Answer(fn, revision, authorized, fetched, status) ==
    [fn |-> fn, revision |-> revision, authorized |-> authorized,
     fetched |-> fetched, status |-> status]

\* fetch_issue_status(RootId, authorized)
QueryIssueStatus ==
    /\ res = NoRes
    /\ \E authorized \in AuthInputs :
         \E fetched \in Orders(fetch_events(store, RootId, IssueStatusKinds, dedup(authorized))) :
            res' = Answer("issue", "none", authorized, fetched, fetch_issue_status(fetched))
    /\ UNCHANGED <<store, family, naddrs, repoStore, last, cmd, net>>

\* fetch_pr_status(RootId, authorized)
QueryPrStatus ==
    /\ res = NoRes
    /\ \E authorized \in AuthInputs :
         \E fetched \in Orders(fetch_events(store, RootId, PatchPrStatus_all_kinds, dedup(authorized))) :
            res' = Answer("pr", "none", authorized, fetched, fetch_pr_status(fetched))
    /\ UNCHANGED <<store, family, naddrs, repoStore, last, cmd, net>>

\* fetch_patch_status(RootId, root_revision, authorized)
QueryPatchStatus ==
    /\ res = NoRes
    /\ \E authorized \in AuthInputs, root_revision \in Revisions \cup {"none"} :
         \E fetched \in Orders(fetch_events(store, RootId, PatchPrStatus_all_kinds, dedup(authorized))) :
            res' = Answer("patch", root_revision, authorized, fetched,
                          fetch_patch_status(fetched, root_revision))
    /\ UNCHANGED <<store, family, naddrs, repoStore, last, cmd, net>>

NextResolve == QueryIssueStatus \/ QueryPrStatus \/ QueryPatchStatus

SpecResolve == InitResolve /\ [][NextResolve]_vars

(***************************************************************************)
(* The repositories, the entities and the users of the command runs.       *)
(***************************************************************************)
\* the owner key of a repository coordinate (Nip19Coordinate::public_key)
CoordinateOwner(c) == "o"

\* the maintainers listed by the announcement of a coordinate: the first
\* repository lists one maintainer, the second lists him and its owner
AnnouncementMaintainers(c) == IF c = "c1" THEN <<"m">> ELSE <<"m", "o">>

\* the relays listed by the announcement of a coordinate
AnnouncementRelays(c) == IF c = "c1" THEN <<"wss://r1", "wss://r2">> ELSE <<"wss://r2">>

\* the coordinate lists given on the command line (none, one, two)
NaddrInputs == {<<>>, <<"c1">>, <<"c1", "c2">>}

\* the users who run commands: the owner of the repositories (a maintainer
\* of the second one only) and the author of the entities
Users == {"o", "a"}

\* the events the relays hold besides status events: an issue, a pull request,
\* a root patch, a root-revision patch of it, and the second patch of its series
EntityIds == {"I", "P", "R", "V", "N"}

\* the event with the given id, as the relays return it
EntityEvent(id) ==
    CASE id = "I" -> [id |-> "I", kind |-> "GitIssue", pubkey |-> "a", tags |-> <<>>]
      [] id = "P" -> [id |-> "P", kind |-> "GitPr", pubkey |-> "a", tags |-> <<>>]
      [] id = "R" -> [id |-> "R", kind |-> "GitPatch", pubkey |-> "a",
                      tags |-> <<Tag("t", "root", "")>>]
      [] id = "V" -> [id |-> "V", kind |-> "GitPatch", pubkey |-> "a",
                      tags |-> <<Tag("t", "root", ""), Tag("t", "root-revision", ""),
                                 event_reply_tag("R", "reply")>>]
      [] id = "N" -> [id |-> "N", kind |-> "GitPatch", pubkey |-> "a",
                      tags |-> <<event_reply_tag("R", "root"), event_reply_tag("R", "reply")>>]

RECURSIVE Flatten(_)
\* the concatenation of a sequence of sequences (flat_map, concat)
Flatten(ss) == IF ss = <<>> THEN <<>> ELSE Head(ss) \o Flatten(Tail(ss))

\* NaddrsUtils::extract_owners
extract_owners(coords) == [i \in 1..Len(coords) |-> CoordinateOwner(coords[i])]

\* fetch_repos that drops the coordinates without an announcement
fetch_repos_lenient(coords, announced) ==
    [ok |-> TRUE,
     repos |-> Flatten([i \in 1..Len(coords) |->
                          IF coords[i] \in announced THEN <<coords[i]>> ELSE <<>>])]

\* NostrClient::fetch_repos: one fetch per coordinate, NotFoundRepo if any of
\* them has no announcement
fetch_repos(coords, announced) ==
    IF \E i \in 1..Len(coords) : coords[i] \notin announced
    THEN [ok |-> FALSE, err |-> "NotFoundRepo"]
    ELSE [ok |-> TRUE, repos |-> coords]

\* ReposUtils::extract_maintainers
extract_maintainers(repos) ==
    Flatten([i \in 1..Len(repos) |-> AnnouncementMaintainers(repos[i])])

\* ReposUtils::extract_relays
repos_extract_relays(repos) ==
    Flatten([i \in 1..Len(repos) |-> AnnouncementRelays(repos[i])])

\* NostrClient::fetch_event(Filter::new().id(id).kind(kind)): the entity, or
\* the error the caller turns None into
fetch_entity(id, kind, err) ==
    IF id \in EntityIds /\ EntityEvent(id).kind = kind
    THEN [ok |-> TRUE, event |-> EntityEvent(id)]
    ELSE [ok |-> FALSE, err |-> err]

\* GitPatchUtils::is_root_patch
is_root_patch(event) ==
    /\ event.kind = "GitPatch"
    /\ \E i \in 1..Len(event.tags) : event.tags[i].k = "t" /\ event.tags[i].v = "root"

\* is_revision_patch that knows the legacy hashtag only
is_revision_patch_legacy_only(event) ==
    /\ event.kind = "GitPatch"
    /\ \E i \in 1..Len(event.tags) :
          event.tags[i].k = "t" /\ event.tags[i].v = "revision-root"

\* GitPatchUtils::is_revision_patch
is_revision_patch(event) ==
    /\ event.kind = "GitPatch"
    /\ \E i \in 1..Len(event.tags) :
          event.tags[i].k = "t" /\ event.tags[i].v \in {"root-revision", "revision-root"}

\* GitPatchUtils::root_patch_from_revision: the id of the first reply tag
root_patch_from_revision(event) ==
    IF \E i \in 1..Len(event.tags) : is_reply(event.tags[i])
    THEN LET i == CHOOSE i \in 1..Len(event.tags) :
                    /\ is_reply(event.tags[i])
                    /\ \A j \in 1..(i-1) : ~is_reply(event.tags[j])
         IN [ok |-> TRUE, id |-> event.tags[i].v]
    ELSE [ok |-> FALSE, err |-> "InvalidEvent"]

\* get_patch_root_revision
get_patch_root_revision(patch_event) ==
    IF is_revision_patch(patch_event)
    THEN LET r == root_patch_from_revision(patch_event)
         IN IF r.ok THEN [ok |-> TRUE, root |-> r.id, revision |-> patch_event.id]
            ELSE r
    ELSE IF is_root_patch(patch_event)
    THEN [ok |-> TRUE, root |-> patch_event.id, revision |-> "none"]
    ELSE [ok |-> FALSE, err |-> "NotRootPatch"]

\* the authorized keys with the owners left out
authorized_without_owners(maintainers, author, owners) == maintainers \o <<author>>

\* issue_status_command / patch_pr_status_command:
\* [maintainers, &[event.pubkey], &owners].concat()
authorized_pubkeys(maintainers, author, owners) == maintainers \o <<author>> \o owners

\* list_pr_patches_and_issues: [owners, maintainers].concat() and, per event,
\* [keys, &[event.pubkey]].concat()
list_authorized_pubkeys(maintainers, author, owners) == owners \o maintainers \o <<author>>

\* view_pr_issue: [repos.extract_maintainers(), &[event.pubkey]].concat()
view_authorized_pubkeys(maintainers, author, owners) == maintainers \o <<author>>

(***************************************************************************)
(* The guards (check_fn) of the status-transition commands.  A guard gets  *)
(* the freshly resolved status and returns Ok or the InvalidStatus message. *)
(***************************************************************************)
Accept == "Ok"

\* `patch apply` without its check of an applied patch
patch_apply_check_no_applied(status) ==
    CASE status = "Closed" -> "You can't apply a closed patch"
      [] status = "Draft" -> "You can't apply a drafted patch"
      [] OTHER -> Accept

\* `patch apply`
patch_apply_check(status) ==
    CASE status = "MergedApplied" -> "You can't apply an already applied patch"
      [] status = "Closed" -> "You can't apply a closed patch"
      [] status = "Draft" -> "You can't apply a drafted patch"
      [] OTHER -> Accept

\* `patch merge` without its check of a draft patch
patch_merge_check_no_draft(status) ==
    CASE status = "MergedApplied" -> "You can't merge an already merged/applied patch"
      [] status = "Closed" -> "You can't merge a closed patch"
      [] OTHER -> Accept

\* `patch merge`
patch_merge_check(status) ==
    CASE status = "MergedApplied" -> "You can't merge an already merged/applied patch"
      [] status = "Closed" -> "You can't merge a closed patch"
      [] status = "Draft" -> "You can't merge a draft patch"
      [] OTHER -> Accept

\* `patch close` without its check of a merged/applied patch
patch_close_check_no_merged(status) ==
    CASE status = "Closed" -> "You can't close an already closed patch"
      [] OTHER -> Accept

\* `patch close`
patch_close_check(status) ==
    CASE status = "Closed" -> "You can't close an already closed patch"
      [] status = "MergedApplied" -> "You can't close a merged/applied patch"
      [] OTHER -> Accept

\* `patch draft`: "Converts the closed or open patch to draft state."
patch_draft_check(status) ==
    IF status \in {"Open", "Closed"} THEN Accept ELSE "InvalidStatus"

\* `patch reopen`: "Reopens a closed or drafted patch."
patch_reopen_check(status) ==
    IF status \in {"Closed", "Draft"} THEN Accept ELSE "InvalidStatus"

\* `pr draft`
pr_draft_check(status) ==
    CASE status = "Draft" -> "You can't draft an already draft pull request"
      [] status = "Closed" -> "You can't draft a closed pull request"
      [] status = "MergedApplied" -> "You can't draft a merged/applied pull request"
      [] OTHER -> Accept

\* `pr apply`
pr_apply_check(status) ==
    CASE status = "MergedApplied" -> "You can't apply an already applied pull request"
      [] status = "Closed" -> "You can't apply a closed pull request"
      [] status = "Draft" -> "Cannot apply a draft pull request"
      [] OTHER -> Accept

\* `pr close`: Open -> Closed, Draft -> Closed
pr_close_check(status) ==
    IF status \in {"Open", "Draft"} THEN Accept ELSE "InvalidStatus"

\* `pr reopen`: Closed -> Open, Draft -> Open
pr_reopen_check(status) ==
    IF status \in {"Closed", "Draft"} THEN Accept ELSE "InvalidStatus"

\* `pr merge`: into MergedApplied from Open only
pr_merge_check(status) ==
    IF status = "Open" THEN Accept ELSE "InvalidStatus"

\* `issue close`: "Closes an open issue."
issue_close_check(status) == IF status = "Open" THEN Accept ELSE "InvalidStatus"

\* `issue reopen`: "Reopens a closed issue."
issue_reopen_check(status) == IF status = "Closed" THEN Accept ELSE "InvalidStatus"

\* `issue resolve`: "Resolves an open issue."
issue_resolve_check(status) == IF status = "Open" THEN Accept ELSE "InvalidStatus"

IssueOps == {"issue close", "issue reopen", "issue resolve"}
PrOps == {"pr close", "pr draft", "pr reopen", "pr apply", "pr merge"}
PatchOps == {"patch close", "patch draft", "patch reopen", "patch apply", "patch merge"}

\* the subcommands of a family (IssueSubcommands, PrSubcommands, PatchSubcommands)
OpsOf(fam) ==
    CASE fam = "issue" -> IssueOps
      [] fam = "pr" -> PrOps
      [] fam = "patch" -> PatchOps
      [] OTHER -> {}

\* the check_fn closure each subcommand passes
check_fn(op, status) ==
    CASE op = "patch apply" -> patch_apply_check(status)
      [] op = "patch merge" -> patch_merge_check(status)
      [] op = "patch close" -> patch_close_check(status)
      [] op = "patch draft" -> patch_draft_check(status)
      [] op = "patch reopen" -> patch_reopen_check(status)
      [] op = "pr draft" -> pr_draft_check(status)
      [] op = "pr apply" -> pr_apply_check(status)
      [] op = "pr close" -> pr_close_check(status)
      [] op = "pr reopen" -> pr_reopen_check(status)
      [] op = "pr merge" -> pr_merge_check(status)
      [] op = "issue close" -> issue_close_check(status)
      [] op = "issue reopen" -> issue_reopen_check(status)
      [] op = "issue resolve" -> issue_resolve_check(status)

\* the new_status each subcommand passes
new_status(op) ==
    CASE op \in {"patch apply", "patch merge", "pr apply", "pr merge"} -> "MergedApplied"
      [] op \in {"patch close", "pr close", "issue close"} -> "Closed"
      [] op \in {"patch draft", "pr draft"} -> "Draft"
      [] op \in {"patch reopen", "pr reopen", "issue reopen"} -> "Open"
      [] op = "issue resolve" -> "Resolved"

\* the merge_or_applied_commits each subcommand passes: Left(merge commit),
\* Right(applied commits) or None
merge_or_applied_commits(op) ==
    CASE op \in {"patch merge", "pr merge"} ->
            [side |-> "Left", commits |-> <<"c0ffee">>, joined |-> "c0ffee"]
      [] op \in {"patch apply", "pr apply"} ->
            [side |-> "Right", commits |-> <<"c0ffee", "decade">>, joined |-> "c0ffee decade"]
      [] OTHER -> [side |-> "None", commits |-> <<>>, joined |-> ""]

\* the kind of the status event of a new status
status_kind(op) ==
    IF op \in IssueOps THEN IssueStatus_kind(new_status(op))
    ELSE PatchPrStatus_kind(new_status(op))

(***************************************************************************)
(* The steps of a status-transition command (issue_status_command and      *)
(* patch_pr_status_command), each a function of the run so far.            *)
(***************************************************************************)
\* no event built yet
NoEvent == [kind |-> 0, pubkey |-> "none", created_at |-> 0, tags |-> <<>>]

\* the coordinate an entity is addressed to (its `a` tag)
EntityCoordinate(id) == "c1"

\* a command run before its first step: the subcommand, the event id and the
\* --relays option given on the command line, and the user's key
NewCommand(op, id, user, relays) ==
    [pc |-> "start", op |-> op, id |-> id, user |-> user, relays |-> relays,
     log |-> <<>>, err |-> "none", msg |-> "none",
     owners |-> <<>>, coordinates |-> <<>>, repos |-> <<>>, maintainers |-> <<>>,
     author |-> "none", authorized |-> <<>>, root |-> "none", revision |-> "none",
     status |-> "none", event |-> NoEvent]

\* the early return of a command with an error (the `?` operator)
Fail(c, err, msg) == [c EXCEPT !.pc = "failed", !.err = err, !.msg = msg]

\* naddrs_or_file, extract_owners, into_coordinates
step_coordinates(c, nad) ==
    [c EXCEPT !.pc = "coords", !.log = Append(@, "coords"),
              !.owners = extract_owners(nad), !.coordinates = nad]

\* client.fetch_repos(&coordinates).await? and repos.extract_maintainers()
step_repos(c, announced) ==
    LET fr == fetch_repos(c.coordinates, announced)
    IN IF fr.ok
       THEN [c EXCEPT !.pc = "repos", !.log = Append(@, "repos"),
                      !.repos = fr.repos, !.maintainers = extract_maintainers(fr.repos)]
       ELSE Fail(c, fr.err, "none")

\* Filter::new().id(issue_id.event_id): the event with the id, of any kind
fetch_event_by_id(id, err) ==
    IF id \in EntityIds THEN [ok |-> TRUE, event |-> EntityEvent(id)]
    ELSE [ok |-> FALSE, err |-> err]

RevisionMessage ==
    "Invalid action for patch revision. Only 'apply' or 'merge' are allowed, 'open', 'close', and 'draft' are not supported."

\* the entity is fetched, the authorized keys are built, a revision patch is
\* refused any status but merged/applied, the root and the revision are found
step_entity(c) ==
    LET fe == CASE c.op \in IssueOps -> fetch_event_by_id(c.id, "CanNotFoundIssue")
                [] c.op \in PatchOps -> fetch_entity(c.id, "GitPatch", "CanNotFoundPatch")
                [] OTHER -> fetch_entity(c.id, "GitPr", "CanNotFoundPr")
    IN IF ~fe.ok THEN Fail(c, fe.err, "none")
       ELSE IF /\ c.op \in PatchOps
               /\ is_revision_patch(fe.event)
               /\ new_status(c.op) # "MergedApplied"
       THEN Fail([c EXCEPT !.author = fe.event.pubkey,
                           !.authorized = authorized_pubkeys(c.maintainers, fe.event.pubkey, c.owners)],
                 "InvalidStatus", RevisionMessage)
       ELSE LET rr == IF c.op \in PatchOps THEN get_patch_root_revision(fe.event)
                      ELSE [ok |-> TRUE, root |-> fe.event.id, revision |-> "none"]
            IN IF ~rr.ok THEN Fail(c, rr.err, "none")
               ELSE [c EXCEPT !.pc = "entity", !.log = Append(@, "entity"),
                              !.author = fe.event.pubkey,
                              !.authorized = authorized_pubkeys(c.maintainers, fe.event.pubkey, c.owners),
                              !.root = rr.root, !.revision = rr.revision]

\* the status events the status query of the command matches in the store
status_query(st, c) ==
    IF c.op \in IssueOps
    THEN fetch_events(st, c.root, IssueStatusKinds, dedup(c.authorized))
    ELSE fetch_events(st, c.root, PatchPrStatus_all_kinds, dedup(c.authorized))

\* fetch_issue_status / fetch_patch_status / fetch_pr_status(..).await?
step_status(c, fetched) ==
    LET status == CASE c.op \in IssueOps -> fetch_issue_status(fetched)
                    [] c.op \in PatchOps -> fetch_patch_status(fetched, c.revision)
                    [] OTHER -> fetch_pr_status(fetched)
    IN IF status \in {"InvalidPatchStatus", "InvalidIssueStatus"}
       THEN Fail(c, status, "none")
       ELSE [c EXCEPT !.pc = "status", !.log = Append(@, "status"), !.status = status]

\* check_fn(&current_status)?
step_guard(c) ==
    LET verdict == check_fn(c.op, c.status)
    IN IF verdict = Accept
       THEN [c EXCEPT !.pc = "guard", !.log = Append(@, "guard")]
       ELSE Fail(c, "InvalidStatus", verdict)

RECURSIVE dedup_tags(_)
\* EventBuilder::dedup_tags, Tags::dedup: a tag is a duplicate of an earlier one
\* by its kind and its content (its first value), so that of a Root-marked and
\* a Reply-marked `e` tag of one id only the first is kept
dedup_tags(tags) ==
    IF tags = <<>> THEN <<>>
    ELSE LET init == dedup_tags(SubSeq(tags, 1, Len(tags) - 1))
             tag == tags[Len(tags)]
         IN IF \E t \in ToSet(init) : t.k = tag.k /\ t.v = tag.v
            THEN init ELSE Append(init, tag)

\* Tag::public_key for each key
public_key_tags(keys) == [i \in 1..Len(keys) |-> Tag("p", keys[i], "")]

\* Tag::coordinate for each coordinate
coordinate_tags(coordinates) == [i \in 1..Len(coordinates) |-> Tag("a", coordinates[i], "")]

\* the tags of the status event of issue_status_command
issue_status_tags(c) ==
    dedup_tags(<<event_reply_tag(c.id, "root")>>
               \o public_key_tags(<<c.author>>)
               \o public_key_tags(c.maintainers)
               \o public_key_tags(c.owners)
               \o coordinate_tags(c.coordinates))

\* the tags of the status event of patch_pr_status_command
patch_pr_status_tags(c) ==
    LET merged == new_status(c.op) = "MergedApplied"
        commits == merge_or_applied_commits(c.op)
        commit_tags ==
            CASE merged /\ commits.side = "Left" ->
                    <<Tag("merge-commit", commits.commits[1], ""),
                      Tag("r", commits.commits[1], "")>>
              [] merged /\ commits.side = "Right" ->
                    <<Tag("applied-as-commits", commits.joined, "")>>
                    \o [i \in 1..Len(commits.commits) |-> Tag("r", commits.commits[i], "")]
              [] OTHER -> <<>>
        revision_tag ==
            IF merged /\ c.revision # "none"
            THEN <<event_reply_tag(c.revision, "reply")>> ELSE <<>>
    IN dedup_tags(<<event_reply_tag(c.root, "root")>>
                  \o public_key_tags(c.authorized)
                  \o coordinate_tags(c.coordinates)
                  \o commit_tags
                  \o revision_tag)

\* the time the event is built at: later than every event of the store
Timestamp_now(st) ==
    IF st = {} THEN 1
    ELSE 1 + (CHOOSE t \in {e.created_at : e \in st} : \A e \in st : e.created_at <= t)

\* EventBuilder::new(new_status.kind(), "")...dedup_tags().build(user_pubk)
step_build(c, st) ==
    [c EXCEPT !.pc = "built", !.log = Append(@, "built"),
              !.event = StatusEvent(status_kind(c.op), c.user, Timestamp_now(st),
                                    IF c.op \in IssueOps THEN issue_status_tags(c)
                                    ELSE patch_pr_status_tags(c))]

\* the relays the event is sent to: the --relays option and the relays of the
\* announcements (the coordinates carry no relay hint, the users no relay list)
write_relays(c) == c.relays \o repos_extract_relays(c.repos)

\* what the signer and the relays do with an event: whether the signer signs,
\* the relays that accept (in the order the client reports them), whether the
\* re-broadcast of the user's relay list succeeds, whether the client library
\* fails when no relay accepts
Outcomes(relays) ==
    [signed : BOOLEAN,
     success : UNION {Orders(S) : S \in SUBSET ToSet(relays)},
     relays_list_ok : BOOLEAN,
     strict : BOOLEAN]

\* the two outcomes a sequence of commands is run with: every relay accepts,
\* or none does
PlainOutcomes(relays) ==
    {[signed |-> TRUE, success |-> s, relays_list_ok |-> TRUE, strict |-> TRUE] :
        s \in {SortedSeq(ToSet(relays)), <<>>}}

\* send_event_to that fails as soon as one relay did not accept
send_event_to_all_or_nothing(event, relays, outcome) ==
    IF ~outcome.signed
    THEN [ok |-> FALSE, err |-> "SignerError", to |-> {}, success |-> <<>>]
    ELSE IF ToSet(outcome.success) # ToSet(relays)
    THEN [ok |-> FALSE, err |-> "ClientError", to |-> ToSet(relays), success |-> <<>>]
    ELSE [ok |-> TRUE, err |-> "none", to |-> ToSet(relays), success |-> outcome.success]

\* NostrClient::send_event_to: the event is signed and sent to the relays,
\* the relay list is re-broadcast and its result dropped, the relays that
\* accepted are returned
send_event_to(event, relays, outcome) ==
    IF ~outcome.signed
    THEN [ok |-> FALSE, err |-> "SignerError", to |-> {}, success |-> <<>>]
    ELSE IF outcome.success = <<>> /\ outcome.strict
    THEN [ok |-> FALSE, err |-> "ClientError", to |-> ToSet(relays), success |-> <<>>]
    ELSE [ok |-> TRUE, err |-> "none", to |-> ToSet(relays), success |-> outcome.success]

\* client.send_event_to(status_event, .., &write_relays).await?
step_send(c, sent) ==
    IF sent.ok THEN [c EXCEPT !.pc = "published", !.log = Append(@, "published")]
    ELSE Fail(c, sent.err, "none")

\* the store after the relays in `accepted` stored the event
Stored(st, event, accepted) == IF accepted = {} THEN st ELSE st \cup {event}

(***************************************************************************)
(* Runs of whole commands, one after the other, on one event store.        *)
(***************************************************************************)
\* the events the commands of a run are given, by family
Targets(fam) ==
    CASE fam = "issue" -> {"I"}
      [] fam = "pr" -> {"P"}
      [] fam = "patch" -> {"R", "V"}
      [] OTHER -> {}

\* the root entity of a family, which its status events refer to
ExpectedRootOf(fam) ==
    CASE fam = "issue" -> "I"
      [] fam = "pr" -> "P"
      [] OTHER -> "R"

\* the --relays option of the commands of a run
OptionRelays == <<"wss://r3">>

Init ==
    /\ store = {}
    /\ res = NoRes
    /\ family \in {"issue", "pr", "patch"}
    /\ naddrs \in NaddrInputs
    /\ repoStore = {"c1", "c2"}
    /\ last = NoLast
    /\ cmd = NoCmd
    /\ net = NoNet

\* a command up to its status query
BeforeStatus(op, id, user, relays, nad, announced) ==
    LET c1 == step_coordinates(NewCommand(op, id, user, relays), nad)
        c2 == step_repos(c1, announced)
    IN IF c2.pc = "failed" THEN c2 ELSE step_entity(c2)

\* a command from its status query to the built event
AfterStatus(c, fetched, st) ==
    LET c4 == step_status(c, fetched)
        c5 == IF c4.pc = "failed" THEN c4 ELSE step_guard(c4)
    IN IF c5.pc = "failed" THEN c5 ELSE step_build(c5, st)

\* one whole run of issue_status_command or patch_pr_status_command
StatusCommand(ops) ==
    \E op \in ops \cap OpsOf(family), id \in Targets(family), user \in Users :
       LET c3 == BeforeStatus(op, id, user, OptionRelays, naddrs, repoStore)
       IN IF c3.pc = "failed"
          THEN last' = c3 /\ store' = store
          ELSE \E fetched \in Orders(status_query(store, c3)) :
                 LET c6 == AfterStatus(c3, fetched, store)
                 IN IF c6.pc = "failed"
                    THEN last' = c6 /\ store' = store
                    ELSE /\ Cardinality(store) < MaxPublished
                         /\ \E outcome \in PlainOutcomes(write_relays(c6)) :
                              LET sent == send_event_to(c6.event, write_relays(c6), outcome)
                              IN /\ last' = step_send(c6, sent)
                                 /\ store' = Stored(store, c6.event, ToSet(sent.success))

\* issue close, issue reopen, issue resolve
IssueStatusCommand ==
    /\ StatusCommand(IssueOps)
    /\ UNCHANGED <<res, family, naddrs, repoStore, cmd, net>>

\* patch/pr close, draft, reopen, apply, merge
PatchPrStatusCommand ==
    /\ StatusCommand(PatchOps \cup PrOps)
    /\ UNCHANGED <<res, family, naddrs, repoStore, cmd, net>>

\* the result of a read-only command: the status it shows for each event,
\* with the authorized keys it resolved the status with
Shown(op, err, entries) == [op |-> op, pc |-> "shown", err |-> err, entries |-> entries]

\* what a status query of a read-only command may return for an event
Entries(st, fam, event, authorized) ==
    LET rr == IF fam = "patch" THEN get_patch_root_revision(event)
              ELSE [ok |-> TRUE, root |-> event.id, revision |-> "none"]
    IN IF ~rr.ok THEN {}
       ELSE {[id |-> event.id, authorized |-> authorized,
              status |-> CASE fam = "issue" -> fetch_issue_status(fetched)
                           [] fam = "pr" -> fetch_pr_status(fetched)
                           [] OTHER -> fetch_patch_status(fetched, rr.revision)] :
                fetched \in Orders(fetch_events(st, rr.root,
                                                IF fam = "issue" THEN IssueStatusKinds
                                                ELSE PatchPrStatus_all_kinds,
                                                dedup(authorized)))}

\* `issue view` / `pr view`
ViewPrIssue ==
    /\ family \in {"issue", "pr"}
    /\ \E id \in Targets(family) :
         LET fr == fetch_repos(naddrs, repoStore)
             fe == fetch_entity(id, IF family = "pr" THEN "GitPr" ELSE "GitIssue",
                                IF family = "pr" THEN "CanNotFoundPr" ELSE "CanNotFoundIssue")
         IN IF ~fr.ok THEN last' = Shown("view", fr.err, {})
            ELSE IF ~fe.ok THEN last' = Shown("view", fe.err, {})
            ELSE \E entry \in Entries(store, family, fe.event,
                                      view_authorized_pubkeys(extract_maintainers(fr.repos),
                                                              fe.event.pubkey,
                                                              extract_owners(naddrs))) :
                    last' = Shown("view", "none", {entry})
    /\ UNCHANGED <<store, res, family, naddrs, repoStore, cmd, net>>

\* check_empty_naddrs
check_empty_naddrs(nad) ==
    IF nad = <<>> THEN [ok |-> FALSE, err |-> "EmptyNaddrs"] ELSE [ok |-> TRUE, naddrs |-> nad]

\* the events the list filter matches: the coordinates, the kind of the
\* family and, for patches, the hashtag root
listed_events(fam, coordinates) ==
    {id \in EntityIds :
        /\ EntityCoordinate(id) \in ToSet(coordinates)
        /\ EntityEvent(id).kind = (CASE fam = "issue" -> "GitIssue"
                                     [] fam = "pr" -> "GitPr"
                                     [] OTHER -> "GitPatch")
        /\ fam = "patch" =>
              \E i \in 1..Len(EntityEvent(id).tags) :
                 EntityEvent(id).tags[i].k = "t" /\ EntityEvent(id).tags[i].v = "root"}

\* `issue list` / `pr list` / `patch list`
ListPrPatchesAndIssues ==
    /\ LET ce == check_empty_naddrs(naddrs)
           fr == fetch_repos(naddrs, repoStore)
       IN IF ~ce.ok THEN last' = Shown("list", ce.err, {})
          ELSE IF ~fr.ok THEN last' = Shown("list", fr.err, {})
          ELSE LET ids == listed_events(family, naddrs)
                   all == UNION {Entries(store, family, EntityEvent(id),
                                         list_authorized_pubkeys(extract_maintainers(fr.repos),
                                                                 EntityEvent(id).pubkey,
                                                                 extract_owners(naddrs))) :
                                    id \in ids}
               IN \E entries \in SUBSET all :
                     /\ \A id \in ids : Cardinality({e \in entries : e.id = id}) = 1
                     /\ last' = Shown("list", "none", entries)
    /\ UNCHANGED <<store, res, family, naddrs, repoStore, cmd, net>>

Next ==
    \/ IssueStatusCommand
    \/ PatchPrStatusCommand
    \/ ViewPrIssue
    \/ ListPrPatchesAndIssues

Spec == Init /\ [][Next]_vars

(***************************************************************************)
(* One run of a status-transition command, step by step, with the signer   *)
(* and every relay answering as they please.                               *)
(***************************************************************************)
\* the event ids a command is given: the entities of its family, an event of
\* another kind, a patch that is not a root, an id no relay knows
CommandTargets(fam) ==
    CASE fam = "issue" -> {"I", "Z"}
      [] fam = "pr" -> {"P", "R"}
      [] fam = "patch" -> {"R", "V", "N", "Z"}
      [] OTHER -> {}

\* the --relays options a command is given
RelaysOptions == {<<>>, <<"wss://r3">>}

\* the status events the store holds when the command starts: none, or one
\* status event of the author on the entity of the family
StartStores(fam) ==
    {{}} \cup {{StatusEvent(k, "a", 1, <<event_reply_tag(ExpectedRootOf(fam), "root")>>)} :
                  k \in PatchPrStatus_all_kinds}

\* an event of a kind the status query did not ask for, which a relay that
\* ignores the kinds of the filter returns
StrayEvent(c, st) ==
    StatusEvent(IF c.op \in IssueOps THEN GitStatusDraft ELSE GitStatusDraft + 1,
                c.author, Timestamp_now(st), <<event_reply_tag(c.root, "root")>>)

InitPipeline ==
    /\ family \in {"issue", "pr", "patch"}
    /\ store \in StartStores(family)
    /\ res = NoRes
    /\ naddrs \in NaddrInputs
    /\ repoStore \in {{"c1", "c2"}, {"c1"}}
    /\ last = NoLast
    /\ cmd = NoCmd
    /\ net = NoNet

\* the command line is parsed
StartCommand ==
    /\ cmd = NoCmd
    /\ \E op \in OpsOf(family), id \in CommandTargets(family), user \in Users,
          relays \in RelaysOptions :
         cmd' = NewCommand(op, id, user, relays)
    /\ UNCHANGED <<store, res, family, naddrs, repoStore, last, net>>

ResolveCoordinates ==
    /\ cmd.pc = "start"
    /\ cmd' = step_coordinates(cmd, naddrs)
    /\ UNCHANGED <<store, res, family, naddrs, repoStore, last, net>>

FetchRepos ==
    /\ cmd.pc = "coords"
    /\ cmd' = step_repos(cmd, repoStore)
    /\ UNCHANGED <<store, res, family, naddrs, repoStore, last, net>>

FetchEntity ==
    /\ cmd.pc = "repos"
    /\ cmd' = step_entity(cmd)
    /\ UNCHANGED <<store, res, family, naddrs, repoStore, last, net>>

ResolveStatus ==
    /\ cmd.pc = "entity"
    /\ \E strays \in SUBSET {StrayEvent(cmd, store)} :
         \E fetched \in Orders(status_query(store, cmd) \cup strays) :
            cmd' = step_status(cmd, fetched)
    /\ UNCHANGED <<store, res, family, naddrs, repoStore, last, net>>

CheckGuard ==
    /\ cmd.pc = "status"
    /\ cmd' = step_guard(cmd)
    /\ UNCHANGED <<store, res, family, naddrs, repoStore, last, net>>

BuildEvent ==
    /\ cmd.pc = "guard"
    /\ cmd' = step_build(cmd, store)
    /\ UNCHANGED <<store, res, family, naddrs, repoStore, last, net>>

SendEvent ==
    /\ cmd.pc = "built"
    /\ \E outcome \in Outcomes(write_relays(cmd)) :
         LET sent == send_event_to(cmd.event, write_relays(cmd), outcome)
         IN /\ cmd' = step_send(cmd, sent)
            /\ net' = [sent |-> sent.to # {}, event |-> cmd.event,
                       relays |-> write_relays(cmd), to |-> sent.to,
                       outcome |-> outcome, ok |-> sent.ok, err |-> sent.err,
                       success |-> sent.success]
            /\ store' = Stored(store, cmd.event, ToSet(outcome.success) \cap sent.to)
    /\ UNCHANGED <<res, family, naddrs, repoStore, last>>

NextPipeline ==
    \/ StartCommand
    \/ ResolveCoordinates
    \/ FetchRepos
    \/ FetchEntity
    \/ ResolveStatus
    \/ CheckGuard
    \/ BuildEvent
    \/ SendEvent

SpecPipeline == InitPipeline /\ [][NextPipeline]_vars

(***************************************************************************)
(* Claims on status resolution (checked under SpecResolve).                *)
(***************************************************************************)
\* the kinds the query function fn puts in its filter
KindsOf(fn) == IF fn = "issue" THEN IssueStatusKinds ELSE PatchPrStatus_all_kinds

\* what the function fn computes from what the relays returned
StatusOf(fn, fetched, revision) ==
    CASE fn = "issue" -> fetch_issue_status(fetched)
      [] fn = "pr" -> fetch_pr_status(fetched)
      [] fn = "patch" -> fetch_patch_status(fetched, revision)

\* every status the function fn may return on the store st, over the orders
\* in which the relays may return the events
Results(st, fn, revision, authorized) ==
    {StatusOf(fn, fetched, revision) :
        fetched \in Orders(fetch_events(st, RootId, KindsOf(fn), dedup(authorized)))}

\* the status events of st that reference the entity and are signed by a key
\* of the authorized list
AuthorizedOn(st, authorized) ==
    {e \in st : /\ e.pubkey \in ToSet(authorized)
                /\ e.kind \in PatchPrStatus_all_kinds
                /\ \E i \in 1..Len(e.tags) : e.tags[i].k = "e" /\ e.tags[i].v = RootId}

\* the events of st signed by a key outside the authorized list
UnauthorizedIn(st, authorized) == {e \in st : e.pubkey \notin ToSet(authorized)}

\* the status the function fn decodes from a kind
Decode(fn, kind) ==
    IF fn = "issue" THEN IssueStatus_try_from(kind) ELSE PatchPrStatus_try_from(kind)

\* C1: status resolution is unaffected by the status events of signers outside
\* the authorized set: removing any of them from the store leaves the possible
\* results unchanged, and the status returned is one the store without them gives
C1_UnauthorizedExcluded ==
    res.fn # "none" =>
        /\ \A U \in SUBSET UnauthorizedIn(store, res.authorized) :
              Results(store \ U, res.fn, res.revision, res.authorized)
                = Results(store, res.fn, res.revision, res.authorized)
        /\ res.status \in Results(store \ UnauthorizedIn(store, res.authorized),
                                   res.fn, res.revision, res.authorized)

\* C1 witness: a query answered on a store whose newest event on the entity is
\* from an unauthorized signer and carries another status than the answer
C1_Witness ==
    /\ res.fn = "pr"
    /\ AuthorizedOn(store, res.authorized) # {}
    /\ \E u \in UnauthorizedIn(store, res.authorized) :
          /\ \E i \in 1..Len(u.tags) : u.tags[i].k = "e" /\ u.tags[i].v = RootId
          /\ \A e \in store \ {u} : e.created_at < u.created_at
          /\ PatchPrStatus_try_from(u.kind) # res.status

\* the fetched events have pairwise distinct created_at
DistinctTimes(S) == \A e1, e2 \in S : e1 # e2 => e1.created_at # e2.created_at

\* the event of S with the greatest created_at
Newest(S) == CHOOSE e \in S : \A f \in S : f.created_at <= e.created_at

\* C2: when the authorized status events on the entity have pairwise distinct
\* created_at, the resolved status (issue, pull request, bare root patch) is the
\* one decoded from the event with the greatest created_at, in every arrival order
C2_NewestWins ==
    (/\ res.fn # "none"
     /\ res.revision = "none"
     /\ ToSet(res.fetched) # {}
     /\ DistinctTimes(ToSet(res.fetched))) =>
        /\ res.status = Decode(res.fn, Newest(ToSet(res.fetched)).kind)
        /\ Results(store, res.fn, res.revision, res.authorized) = {res.status}

\* C2 witness: two authorized events of different kinds, the newer one returned
\* first by the relays
C2_Witness ==
    /\ res.fn = "issue"
    /\ Len(res.fetched) = 2
    /\ res.fetched[1].created_at > res.fetched[2].created_at
    /\ res.fetched[1].kind = GitStatusClosed
    /\ res.fetched[2].kind = GitStatusOpen
    /\ res.status = "Closed"

\* C3: with no status event that references the entity and is signed by an
\* authorized key, every query returns Open (issue, pull request, root patch
\* and root-revision patch)
C3_DefaultOpen ==
    (res.fn # "none" /\ AuthorizedOn(store, res.authorized) = {}) => res.status = "Open"

\* C3 witness: a revision patch queried on a store whose only status event on
\* the root is a MergedApplied of an unauthorized signer
C3_Witness ==
    /\ res.fn = "patch"
    /\ res.revision = "W"
    /\ AuthorizedOn(store, res.authorized) = {}
    /\ \E u \in store : /\ u.kind = GitStatusApplied
                         /\ u.tags = <<event_reply_tag(RootId, "root")>>
    /\ res.status = "Open"

\* the event has an `e` tag with the Reply marker whose id is the revision
RepliesTo(e, revision) ==
    \E i \in 1..Len(e.tags) :
        e.tags[i].k = "e" /\ e.tags[i].m = "reply" /\ e.tags[i].v = revision

\* C4: fetch_patch_status with a single newest authorized status event n on the
\* root: for a revision, MergedApplied becomes Closed unless n has a Reply-marked
\* `e` tag to the revision; Open, Closed and Draft, and every status of the bare
\* root, are returned unchanged
C4_RevisionClosure ==
    (/\ res.fn = "patch"
     /\ AuthorizedOn(store, res.authorized) # {}
     /\ \E n \in AuthorizedOn(store, res.authorized) :
           \A e \in AuthorizedOn(store, res.authorized) \ {n} : e.created_at < n.created_at) =>
        LET n == Newest(AuthorizedOn(store, res.authorized))
        IN res.status =
             IF n.kind = GitStatusApplied /\ res.revision # "none"
             THEN (IF RepliesTo(n, res.revision) THEN "MergedApplied" ELSE "Closed")
             ELSE PatchPrStatus_try_from(n.kind)

\* C4 witness: the root was merged through revision V, and revision W is queried
C4_Witness ==
    /\ res.fn = "patch"
    /\ res.revision = "W"
    /\ Len(res.fetched) >= 1
    /\ LET n == Newest(ToSet(res.fetched))
       IN n.kind = GitStatusApplied /\ RepliesTo(n, "V")
    /\ DistinctTimes(ToSet(res.fetched))
    /\ res.status = "Closed"

\* C4 second case: the revision the root was merged through is MergedApplied
C4_WitnessMerged ==
    /\ res.fn = "patch"
    /\ res.revision = "V"
    /\ res.status = "MergedApplied"

(***************************************************************************)
(* Claims on whole command runs (checked under Spec).                      *)
(***************************************************************************)
StatusOps == IssueOps \cup PatchOps \cup PrOps

\* the last command was a status-transition command that resolved a status
Resolved(l) == l.op \in StatusOps /\ l.status # "none"

\* the guard of the last command accepted the resolved status
GuardPassed(l) == l.op \in StatusOps /\ "guard" \in ToSet(l.log)

\* the guard of the last command rejected the resolved status
GuardRejected(l) ==
    /\ Resolved(l)
    /\ l.pc = "failed" /\ l.err = "InvalidStatus"
    /\ "guard" \notin ToSet(l.log)

\* the transition an InvalidStatus message has to name
TransitionMessage(op, status) ==
    CASE op = "patch apply" /\ status = "MergedApplied" -> "You can't apply an already applied patch"
      [] op = "patch apply" /\ status = "Closed" -> "You can't apply a closed patch"
      [] op = "patch apply" /\ status = "Draft" -> "You can't apply a drafted patch"
      [] op = "patch merge" /\ status = "MergedApplied" -> "You can't merge an already merged/applied patch"
      [] op = "patch merge" /\ status = "Closed" -> "You can't merge a closed patch"
      [] op = "patch merge" /\ status = "Draft" -> "You can't merge a draft patch"
      [] op = "pr apply" /\ status = "MergedApplied" -> "You can't apply an already applied pull request"
      [] op = "pr apply" /\ status = "Closed" -> "You can't apply a closed pull request"
      [] op = "pr apply" /\ status = "Draft" -> "Cannot apply a draft pull request"
      [] OTHER -> "none"

\* C5: `patch apply`, `patch merge` and `pr apply` are accepted only when the
\* freshly resolved status is Open: when it is MergedApplied, Closed or Draft
\* the command fails with InvalidStatus and the message of that transition,
\* and no status event is built or published.
C5_OnlyFromOpen ==
    (last.op \in {"patch apply", "patch merge", "pr apply"} /\ Resolved(last)) =>
        /\ last.status \in {"MergedApplied", "Closed", "Draft"} =>
              /\ GuardRejected(last)
              /\ last.msg = TransitionMessage(last.op, last.status)
              /\ last.event = NoEvent
              /\ "built" \notin ToSet(last.log) /\ "published" \notin ToSet(last.log)
        /\ GuardPassed(last) => last.status = "Open"

\* a `patch merge` of a drafted patch was rejected
C5_Witness ==
    /\ last.op = "patch merge" /\ Resolved(last)
    /\ last.status = "Draft" /\ GuardRejected(last)

\* a revision patch was merged although the root patch had been applied
\* without it: the revision resolved Closed
C5_WitnessRevision ==
    /\ last.op = "patch merge" /\ Resolved(last)
    /\ last.id = "V" /\ last.status = "Closed" /\ GuardRejected(last)

\* the keys whose status events count for an entity of the given coordinates
ExpectedAuthorized(nad, id) ==
    {CoordinateOwner(c) : c \in ToSet(nad)}
    \cup UNION {ToSet(AnnouncementMaintainers(c)) : c \in ToSet(nad)}
    \cup {EntityEvent(id).pubkey}

\* the statuses the store resolves to for an entity (one per arrival order)
ResolvedStatuses(st, fam, nad, id) ==
    {e.status : e \in Entries(st, fam, EntityEvent(id),
                              SortedSeq(ExpectedAuthorized(nad, id)))}

SpecEdges ==
    {<<"Open", "Closed">>, <<"Open", "Draft">>, <<"Open", "MergedApplied">>,
     <<"Closed", "Open">>, <<"Draft", "Open">>, <<"Draft", "Closed">>}

\* the commands whose guard the sources give
GuardedInSource == PatchOps \cup {"pr draft", "pr apply"}

\* every change of a resolved status made by one of the commands `ops` is an
\* edge of `edges`
ChangesWithin(ops, edges) ==
    (family \in {"pr", "patch"} /\ last'.op \in ops) =>
        \A id \in Targets(family) :
           \A s \in ResolvedStatuses(store, family, naddrs, id),
              t \in ResolvedStatuses(store', family, naddrs, id) :
                 s # t => <<s, t>> \in edges

\* `patch close` is accepted exactly from Open or Draft
PatchCloseExact ==
    (last.op = "patch close" /\ Resolved(last)) =>
        (GuardPassed(last) <=> last.status \in {"Open", "Draft"})

\* `pr draft` is accepted exactly from Open
PrDraftExact ==
    (last.op = "pr draft" /\ Resolved(last)) =>
        (GuardPassed(last) <=> last.status = "Open")

C7_SameAuthorFilter ==
    /\ (last.op \in StatusOps /\ last.authorized # <<>>) =>
          ToSet(last.authorized) = ExpectedAuthorized(naddrs, last.id)
    /\ (last.op \in {"view", "list"}) =>
          \A e \in last.entries :
             /\ ToSet(e.authorized) = ExpectedAuthorized(naddrs, e.id)
             /\ e.status \in ResolvedStatuses(store, family, naddrs, e.id)

\* the owner of the coordinate, who is not one of its maintainers, closed the
\* entity, and `view` still shows it Open
C7_ViewDiverges ==
    /\ last.op = "view" /\ naddrs = <<"c1">>
    /\ \E e \in last.entries :
          /\ e.status = "Open"
          /\ ResolvedStatuses(store, family, naddrs, e.id) = {"Closed"}

\* the expected root of the status event of an entity
ExpectedRoot(id) == IF id = "V" THEN "R" ELSE id

C10_WitnessMerge ==
    /\ last.op = "pr merge" /\ last.pc = "published"
    /\ \E i \in 1..Len(last.event.tags) : last.event.tags[i].k = "merge-commit"

(***************************************************************************)
(* Claims on the steps of one command run (checked under SpecPipeline).    *)
(***************************************************************************)
\* the order of the steps of a status-transition command
StepOrder == <<"coords", "repos", "entity", "status", "guard", "built", "published">>

IsPrefix(s, t) == Len(s) <= Len(t) /\ \A i \in 1..Len(s) : s[i] = t[i]

\* the command is past the step `step`: the step succeeded and a later step
\* was taken, or the command failed
Past(step) == cmd.pc \notin {"idle", "start", step}

\* the command failed before it published: nothing was built (or nothing
\* after the step that failed), no relay was sent the event
FailedWith(errs, done) ==
    /\ cmd.pc = "failed" /\ cmd.err \in errs
    /\ cmd.log = SubSeq(StepOrder, 1, done)
    /\ net = NoNet

\* the event id given to the command names no event of the family's kind
NoSuchEntity ==
    \/ cmd.id \notin EntityIds
    \/ cmd.op \in PatchOps /\ EntityEvent(cmd.id).kind # "GitPatch"
    \/ cmd.op \in PrOps /\ EntityEvent(cmd.id).kind # "GitPr"

\* C8: the steps of a status-transition command occur in the order
\* coordinates, announcements, entity and authorized set, status, guard,
\* event built, event published; when an announcement is missing
\* (NotFoundRepo), the entity is not found, the status kind does not decode or
\* the guard rejects, the command returns that error and no event is sent to
\* any relay.
C8_OrderedStepsNoPartialPublish ==
    cmd.pc # "idle" =>
        /\ IsPrefix(cmd.log, StepOrder)
        /\ net # NoNet => SubSeq(cmd.log, 1, 6) = SubSeq(StepOrder, 1, 6)
        /\ (cmd.pc = "failed" /\ Len(cmd.log) < 6) => (net = NoNet /\ cmd.event = NoEvent)
        /\ (Past("coords") /\ \E i \in 1..Len(naddrs) : naddrs[i] \notin repoStore)
              => FailedWith({"NotFoundRepo"}, 1)
        /\ (Past("repos") /\ Len(cmd.log) >= 2 /\ NoSuchEntity)
              => FailedWith({"CanNotFoundIssue", "CanNotFoundPatch", "CanNotFoundPr"}, 2)
        /\ cmd.err \in {"InvalidPatchStatus", "InvalidIssueStatus"}
              => FailedWith({"InvalidPatchStatus", "InvalidIssueStatus"}, 3)
        /\ (Past("status") /\ Len(cmd.log) >= 4 /\ check_fn(cmd.op, cmd.status) # Accept)
              => FailedWith({"InvalidStatus"}, 4)

\* a command failed because the announcement of its second coordinate is missing
C8_Witness ==
    /\ cmd.pc = "failed" /\ cmd.err = "NotFoundRepo"
    /\ naddrs = <<"c1", "c2">> /\ repoStore = {"c1"}

\* a command failed at the status query, at the guard, at the entity fetch;
\* a command published its event
C8_WitnessDecode == cmd.pc = "failed" /\ cmd.err = "InvalidPatchStatus"

C8_WitnessGuard ==
    cmd.pc = "failed" /\ cmd.err = "InvalidStatus" /\ Len(cmd.log) = 4

C8_WitnessEntity == cmd.pc = "failed" /\ cmd.err = "CanNotFoundPr"

C8_WitnessPublished == cmd.pc = "published" /\ net.sent /\ cmd.event \in store

\* C9: send_event_to sends the event to exactly the given relays, and when at
\* least one relay accepts it returns Ok with exactly the relays that
\* accepted, however many other relays failed and whether or not the
\* re-broadcast of the user's relay list failed.
C9_PartialSuccessIsOk ==
    net # NoNet =>
        /\ net.outcome.signed => net.to = ToSet(net.relays)
        /\ (net.outcome.signed /\ net.outcome.success # <<>>) =>
              /\ net.ok
              /\ ToSet(net.success) = ToSet(net.outcome.success)
              /\ Len(net.success) = Cardinality(ToSet(net.outcome.success))
              /\ cmd.pc = "published"

\* one of three relays accepted, the others did not, and the re-broadcast of
\* the relay list failed
C9_Witness ==
    /\ net # NoNet /\ net.outcome.signed
    /\ Cardinality(net.to) = 3 /\ Len(net.outcome.success) = 1
    /\ ~net.outcome.relays_list_ok
    /\ net.ok /\ cmd.pc = "published"

(***************************************************************************)
(* The commands that build new events: `issue new`, `pr new`, `pr update`  *)
(* and `patch send`.                                                       *)
(***************************************************************************)
\* the most patches one `patch send` is given
MaxPatches == 3

\* the users a content can mention: the maintainer and a stranger
Mentionable == {"m", "x"}

\* the users who may have published a relay list (NIP-65)
ListUsers == {"o", "m", "a", "x"}

\* the relay list of a user: URLs with their marker ("None" when absent)
RelayList(user) ==
    CASE user = "o" -> <<[url |-> "wss://r4", marker |-> "None"]>>
      [] user = "m" -> <<[url |-> "wss://r5", marker |-> "Read"],
                         [url |-> "wss://r6", marker |-> "Write"]>>
      [] user = "a" -> <<[url |-> "wss://r6", marker |-> "Write"],
                         [url |-> "wss://r2", marker |-> "Read"]>>
      [] OTHER -> <<[url |-> "wss://r1", marker |-> "Read"]>>

RECURSIVE SelectUrls(_, _)
\* the URLs of the entries of a relay list whose marker is absent or the given
\* one, in the order of the list (filter_map)
SelectUrls(list, marker) ==
    IF list = <<>> THEN <<>>
    ELSE (IF Head(list).marker \in {"None", marker} THEN <<Head(list).url>> ELSE <<>>)
         \o SelectUrls(Tail(list), marker)

\* NostrClient::user_relays_list: the relay list event of the user, if the
\* relays hold one
user_relays_list(user, lists) ==
    IF user \in lists THEN [some |-> TRUE, list |-> RelayList(user)]
    ELSE [some |-> FALSE, list |-> <<>>]

\* utils::add_write_relays
add_write_relays(event) == IF event.some THEN SelectUrls(event.list, "Write") ELSE <<>>

\* utils::add_read_relays
add_read_relays(event) == IF event.some THEN SelectUrls(event.list, "Read") ELSE <<>>

\* NostrClient::read_relays_from_user
read_relays_from_user(user, lists) == add_read_relays(user_relays_list(user, lists))

\* NostrClient::read_relays_from_users: the relay lists of the deduplicated
\* users, each reduced to its read relays
read_relays_from_users(users, lists) ==
    LET authors == dedup(users)
    IN Flatten([i \in 1..Len(authors) |-> read_relays_from_user(authors[i], lists)])

\* NostrClient::parse_content and ContentDetails: the users the content
\* mentions, its hashtags, and the read relays of the mentioned users
parse_content(mentions, hashtags, lists) ==
    LET p_tagged_users == SortedSeq(mentions)
    IN [p_tagged |-> p_tagged_users,
        hashtags |-> SortedSeq(hashtags),
        write_relays |->
            dedup(Flatten([i \in 1..Len(p_tagged_users) |->
                             read_relays_from_user(p_tagged_users[i], lists)]))]

\* ContentDetails::into_tags: the hashtags, then the mentioned users
into_tags(details) ==
    [i \in 1..Len(details.hashtags) |-> Tag("t", details.hashtags[i], "")]
    \o public_key_tags(details.p_tagged)

\* an event a command built, with the id the patches of a series refer to
BuiltEvent(id, kind, pubkey, tags) ==
    [id |-> id, kind |-> kind, pubkey |-> pubkey, tags |-> tags]

\* EventBuilder::new_git_issue: the library constructor tags the first
\* coordinate and its owner, the others are tagged here; EmptyNaddrs if
\* there is no coordinate
new_git_issue(coordinates, subject) ==
    IF coordinates = <<>> THEN [ok |-> FALSE, err |-> "EmptyNaddrs", tags |-> <<>>]
    ELSE LET first_coordinate == Head(coordinates)
             rest == Tail(coordinates)
         IN [ok |-> TRUE, err |-> "none",
             tags |-> <<Tag("a", first_coordinate, ""),
                        Tag("p", CoordinateOwner(first_coordinate), ""),
                        Tag("subject", subject, "")>>
                      \o coordinate_tags(rest)
                      \o public_key_tags(extract_owners(rest))
                      \o <<Tag("alt", subject, "")>>]

\* the result of a command that built events: the error or panic it ended
\* with, the events it built, the relays it published to, what was published
Built(op, inp, err, panic, events, relays, sent) ==
    [op |-> op, inp |-> inp, err |-> err, panic |-> panic, events |-> events,
     write_relays |-> relays,
     published |-> IF sent.ok /\ sent.success # <<>> THEN ToSet(events) ELSE {},
     to |-> sent.to]

\* what the relays do with the events of a command: all of them accept, or none
RelaysOutcome(accept, relays) ==
    [signed |-> TRUE, success |-> IF accept THEN SortedSeq(ToSet(relays)) ELSE <<>>,
     relays_list_ok |-> TRUE, strict |-> TRUE]

\* nothing was sent
NotSent == [ok |-> FALSE, err |-> "none", to |-> {}, success |-> <<>>]

\* a command that ended with an error before it built anything
Failed(op, inp, err) == Built(op, inp, err, FALSE, <<>>, <<>>, NotSent)

\* a command that panicked before it built anything
Panicked(op, inp) == Built(op, inp, "none", TRUE, <<>>, <<>>, NotSent)

\* the coordinates of the nostr-address file of a run: there is no such file
NoAddressFile == <<>>

\* utils::naddrs_or_file: the coordinates given on the command line if any,
\* else those of the nostr-address file, none if the file does not exist
naddrs_or_file(given, file) == IF given # <<>> THEN given ELSE file

\* issue new, NewArgs::run
issue_new(inp, nad, announced) ==
    IF nad = <<>>
    THEN \* naddrs_iter.next().expect("There is at least one address")
         Panicked("issue new", inp)
    ELSE LET relays_list == user_relays_list(inp.user, inp.lists)
             content_details == parse_content(inp.mentions, inp.hashtags, inp.lists)
             naddrs_iter == Tail(nad)
             builder == new_git_issue(<<Head(nad)>>, "subject")
             event == BuiltEvent("e1", "GitIssue", inp.user,
                          dedup_tags(builder.tags
                                     \o into_tags(content_details)
                                     \o public_key_tags(extract_owners(naddrs_iter))
                                     \o coordinate_tags(naddrs_iter)))
             repos == fetch_repos(nad, announced)
         IN IF ~builder.ok THEN Failed("issue new", inp, builder.err)
            ELSE IF ~repos.ok THEN Failed("issue new", inp, repos.err)
            ELSE LET relays ==
                        inp.relays
                        \o add_write_relays(relays_list)
                        \o repos_extract_relays(repos.repos)
                        \o Flatten([i \in 1..Len(naddrs_iter) |->
                                      read_relays_from_user(CoordinateOwner(naddrs_iter[i]),
                                                            inp.lists)])
                        \o content_details.write_relays
                     sent == send_event_to(event, relays, RelaysOutcome(inp.accept, relays))
                 IN Built("issue new", inp, sent.err, FALSE, <<event>>, relays, sent)

\* pr new, NewArgs::run (with clone URLs, not a grasp server)
pr_new(inp, nad, announced) ==
    LET ce == check_empty_naddrs(nad)
        repos == fetch_repos(nad, announced)
    IN IF ~ce.ok THEN Failed("pr new", inp, ce.err)
       ELSE IF ~repos.ok THEN Failed("pr new", inp, repos.err)
       ELSE LET maintainers == extract_maintainers(repos.repos)
                repos_relays == repos_extract_relays(repos.repos)
                relays_list == user_relays_list(inp.user, inp.lists)
                body_details == parse_content(inp.mentions, inp.hashtags, inp.lists)
                event == BuiltEvent("e1", "GitPr", inp.user,
                             dedup_tags(coordinate_tags(nad)
                                        \o public_key_tags(maintainers)
                                        \o into_tags(body_details)
                                        \o <<Tag("subject", "subject", ""),
                                             Tag("c", "commit", ""),
                                             Tag("clone", "url", "")>>))
                relays == inp.relays
                          \o repos_relays
                          \o add_write_relays(relays_list)
                          \o read_relays_from_users(maintainers, inp.lists)
                          \o body_details.write_relays
                sent == send_event_to(event, relays, RelaysOutcome(inp.accept, relays))
            IN Built("pr new", inp, sent.err, FALSE, <<event>>, relays, sent)

\* pr update, UpdateArgs::run (with clone URLs, not a grasp server): the
\* builder of this command is never told to deduplicate its tags
pr_update(inp, nad, announced) ==
    LET ce == check_empty_naddrs(nad)
        repos == fetch_repos(nad, announced)
        orignal_pr == fetch_entity(inp.original, "GitPr", "EventNotFound")
    IN IF ~ce.ok THEN Failed("pr update", inp, ce.err)
       ELSE IF ~repos.ok THEN Failed("pr update", inp, repos.err)
       ELSE IF ~orignal_pr.ok THEN Failed("pr update", inp, orignal_pr.err)
       ELSE LET maintainers == extract_maintainers(repos.repos)
                repos_relays == repos_extract_relays(repos.repos)
                relays_list == user_relays_list(inp.user, inp.lists)
                nip22_orignal_pr == <<Tag("E", orignal_pr.event.id, ""),
                                      Tag("P", orignal_pr.event.pubkey, ""),
                                      Tag("K", orignal_pr.event.kind, "")>>
                event == BuiltEvent("e1", "GitPrUpdate", inp.user,
                             nip22_orignal_pr
                             \o coordinate_tags(nad)
                             \o public_key_tags(maintainers)
                             \o <<Tag("c", "commit", ""), Tag("clone", "url", "")>>)
                relays == inp.relays
                          \o repos_relays
                          \o add_write_relays(relays_list)
                          \o read_relays_from_users(maintainers, inp.lists)
                sent == send_event_to(event, relays, RelaysOutcome(inp.accept, relays))
            IN Built("pr update", inp, sent.err, FALSE, <<event>>, relays, sent)

\* the id of the i-th patch event of a series
PatchId(i) == <<"p1", "p2", "p3", "p4">>[i]

\* make_patch with every tag passed through the deduplication, the `e` tags
\* included
make_patch_dedup_all(i, root, reply_to, inp, repo_coordinates) ==
    LET content_details == parse_content(inp.mentions, inp.hashtags, inp.lists)
        root_tags == IF root # "none" THEN <<event_reply_tag(root, "root")>>
                     ELSE <<Tag("t", "root", "")>>
        reply_tags ==
            IF reply_to = "none" THEN <<>>
            ELSE IF root = "none"
            THEN <<event_reply_tag(reply_to, "reply"), Tag("t", "root-revision", "")>>
            ELSE <<event_reply_tag(reply_to, "reply")>>
    IN [event |-> BuiltEvent(PatchId(i), "GitPatch", inp.user,
                      dedup_tags(<<Tag("alt", PatchId(i), ""),
                                   Tag("description", PatchId(i), "")>>
                                 \o into_tags(content_details)
                                 \o coordinate_tags(repo_coordinates)
                                 \o public_key_tags(extract_owners(repo_coordinates))
                                 \o root_tags \o reply_tags)),
        relays |-> content_details.write_relays]

\* make_patch: the tags that are safe to deduplicate, then the root marker or
\* hashtag and the reply marker, which are added after the deduplication
make_patch(i, root, reply_to, inp, repo_coordinates) ==
    LET content_details == parse_content(inp.mentions, inp.hashtags, inp.lists)
        safe_dedup_tags ==
            dedup_tags(<<Tag("alt", PatchId(i), ""), Tag("description", PatchId(i), "")>>
                       \o into_tags(content_details)
                       \o coordinate_tags(repo_coordinates)
                       \o public_key_tags(extract_owners(repo_coordinates)))
        root_tags == IF root # "none" THEN <<event_reply_tag(root, "root")>>
                     ELSE <<Tag("t", "root", "")>>
        reply_tags ==
            IF reply_to = "none" THEN <<>>
            ELSE IF root = "none"
            THEN <<event_reply_tag(reply_to, "reply"), Tag("t", "root-revision", "")>>
            ELSE <<event_reply_tag(reply_to, "reply")>>
    IN [event |-> BuiltEvent(PatchId(i), "GitPatch", inp.user,
                             safe_dedup_tags \o root_tags \o reply_tags),
        relays |-> content_details.write_relays]

\* make_patch_series: the first patch is the root (a revision of the original
\* patch if one is given), every later one names the root and replies to the
\* patch before it
make_patch_series(n, original_patch, inp, repo_coordinates) ==
    LET patch(i) == IF i = 1
                    THEN make_patch(1, "none", original_patch, inp, repo_coordinates)
                    ELSE make_patch(i, PatchId(1), PatchId(i - 1), inp, repo_coordinates)
    IN [events |-> [i \in 1..n |-> patch(i).event],
        relays |-> Flatten([i \in 1..n |-> patch(i).relays])]

\* patch send, SendArgs::run
patch_send(inp, nad, announced) ==
    LET ce == check_empty_naddrs(nad)
        repos == fetch_repos(nad, announced)
    IN IF ~ce.ok THEN Failed("patch send", inp, ce.err)
       ELSE IF ~repos.ok THEN Failed("patch send", inp, repos.err)
       ELSE LET maintainers == extract_maintainers(repos.repos)
                relays_list == user_relays_list(inp.user, inp.lists)
                series == make_patch_series(inp.patches, inp.original, inp, nad)
                relays == inp.relays
                          \o repos_extract_relays(repos.repos)
                          \o series.relays
                          \o add_write_relays(relays_list)
                          \o read_relays_from_users(maintainers, inp.lists)
                sent == send_event_to(series.events[1], relays,
                                      RelaysOutcome(inp.accept, relays))
            IN Built("patch send", inp, sent.err, FALSE, series.events, relays, sent)

(***************************************************************************)
(* Runs of the commands that build new events: one command per run, on the *)
(* coordinates and the announcements the run starts with.                  *)
(***************************************************************************)
\* what a run is given besides the coordinates: the signer, the --relays
\* option, what the content mentions, the relay lists the relays hold,
\* whether the relays accept, the number of patches and the original event
BuildInputs(patches, originals) ==
    [user : Users,
     relays : {<<>>, OptionRelays},
     mentions : SUBSET Mentionable,
     hashtags : {{}, {"root"}},
     lists : SUBSET ListUsers,
     accept : BOOLEAN,
     patches : patches,
     original : originals]

InitBuild ==
    /\ store = {}
    /\ res = NoRes
    /\ family = "none"
    /\ naddrs \in NaddrInputs
    /\ repoStore \in {{"c1", "c2"}, {"c1"}}
    /\ last = NoLast
    /\ cmd = NoCmd
    /\ net = NoNet

\* issue new
IssueNew ==
    /\ last = NoLast
    /\ \E inp \in BuildInputs({1}, {"none"}) :
          last' = issue_new(inp, naddrs_or_file(naddrs, NoAddressFile), repoStore)
    /\ UNCHANGED <<store, res, family, naddrs, repoStore, cmd, net>>

\* pr new
PrNew ==
    /\ last = NoLast
    /\ \E inp \in BuildInputs({1}, {"none"}) :
          last' = pr_new(inp, naddrs_or_file(naddrs, NoAddressFile), repoStore)
    /\ UNCHANGED <<store, res, family, naddrs, repoStore, cmd, net>>

\* pr update
PrUpdate ==
    /\ last = NoLast
    /\ \E inp \in BuildInputs({1}, {"P", "I"}) :
          last' = pr_update(inp, naddrs_or_file(naddrs, NoAddressFile), repoStore)
    /\ UNCHANGED <<store, res, family, naddrs, repoStore, cmd, net>>

\* patch send
PatchSend ==
    /\ last = NoLast
    /\ \E inp \in BuildInputs(1..MaxPatches, {"none", "R"}) :
          last' = patch_send(inp, naddrs_or_file(naddrs, NoAddressFile), repoStore)
    /\ UNCHANGED <<store, res, family, naddrs, repoStore, cmd, net>>

NextBuild ==
    \/ IssueNew
    \/ PrNew
    \/ PrUpdate
    \/ PatchSend

SpecBuild == InitBuild /\ [][NextBuild]_vars

(***************************************************************************)
(* Claims on the commands that build new events (SpecBuild).               *)
(***************************************************************************)
Constructors == {"issue new", "pr new", "pr update", "patch send"}

\* the run built at least one event
HasBuilt == last.op \in Constructors /\ last.events # <<>>

HasTag(event, k, v) ==
    \E i \in 1..Len(event.tags) : event.tags[i].k = k /\ event.tags[i].v = v

\* the tags of the event of the given kind and value
TagsOf(event, k, v) ==
    {i \in 1..Len(event.tags) : event.tags[i].k = k /\ event.tags[i].v = v}

\* the maintainers the announcements of the coordinates list, and the owners
\* of the coordinates
Recipients(nad) == ToSet(extract_maintainers(nad)) \cup ToSet(extract_owners(nad))

\* C11: every event built by issue new, pr new, pr update or patch send
\* carries a public-key mention tag (`p`) for every maintainer listed in the
\* fetched announcements and for every owner key of the target coordinates.
C11_MentionsMaintainersAndOwners ==
    HasBuilt =>
        \A i \in 1..Len(last.events) :
           \A key \in Recipients(naddrs) : HasTag(last.events[i], "p", key)

\* `pr new` on a repository whose owner is not one of its maintainers built
\* an event that mentions the maintainer and not the owner, and `issue new`
\* and `patch send` are able to build one that mentions the owner and not the
\* maintainer
C11_OwnerOrMaintainerMissing ==
    /\ HasBuilt /\ naddrs = <<"c1">>
    /\ \/ /\ last.op \in {"pr new", "pr update"}
          /\ HasTag(last.events[1], "p", "m") /\ ~HasTag(last.events[1], "p", "o")
       \/ /\ last.op \in {"issue new", "patch send"}
          /\ HasTag(last.events[1], "p", "o") /\ ~HasTag(last.events[1], "p", "m")

\* two tags of the event have the same kind and the same primary value
SameKindAndValue(ev, i, j) ==
    i < j /\ ev.tags[i].k = ev.tags[j].k /\ ev.tags[i].v = ev.tags[j].v

\* the Root-marked and the Reply-marked `e` tag of a patch
RootAndReplyOfPatch(ev, i, j) ==
    /\ ev.kind = "GitPatch" /\ ev.tags[i].k = "e"
    /\ {ev.tags[i].m, ev.tags[j].m} = {"root", "reply"}

\* C12: in every built event a public key that comes from more than one
\* source (maintainer list, coordinate owner, content mention) has exactly one
\* `p` tag, and no two tags have the same kind and the same primary value,
\* except the Root-marked and Reply-marked `e` tags of a patch.
C12_NoDuplicateTags ==
    HasBuilt =>
        \A n \in 1..Len(last.events) :
           LET ev == last.events[n]
           IN /\ \A key \in Recipients(naddrs) \cup last.inp.mentions :
                    Cardinality(TagsOf(ev, "p", key)) <= 1
              /\ \A i, j \in 1..Len(ev.tags) :
                    SameKindAndValue(ev, i, j) => RootAndReplyOfPatch(ev, i, j)

\* `pr update` on two repositories that list the same maintainer built an
\* event with two `p` tags for him
C12_DuplicateMention ==
    /\ HasBuilt /\ last.op = "pr update" /\ naddrs = <<"c1", "c2">>
    /\ Cardinality(TagsOf(last.events[1], "p", "m")) = 2

\* the ids the `e` tags of the event with the given marker refer to, one per tag
MarkedIds(ev, marker) ==
    {<<i, ev.tags[i].v>> : i \in {j \in 1..Len(ev.tags) :
                                     ev.tags[j].k = "e" /\ ev.tags[j].m = marker}}

\* the event has exactly one `e` tag with the marker, and it refers to the id
OneMarked(ev, marker, id) ==
    /\ Cardinality(MarkedIds(ev, marker)) = 1
    /\ \A t \in MarkedIds(ev, marker) : t[2] = id

\* C13: in a series built by make_patch_series, patch 1 carries the hashtag
\* `root` and no Root-marked `e` tag, and with an original patch also the
\* hashtag `root-revision` and one Reply-marked `e` tag to the original;
\* every patch i >= 2 carries exactly one Root-marked `e` tag to patch 1 and
\* exactly one Reply-marked `e` tag to patch i-1.
C13_PatchSeriesChain ==
    (HasBuilt /\ last.op = "patch send") =>
        /\ Len(last.events) = last.inp.patches
        /\ HasTag(last.events[1], "t", "root")
        /\ MarkedIds(last.events[1], "root") = {}
        /\ last.inp.original # "none" =>
              /\ HasTag(last.events[1], "t", "root-revision")
              /\ OneMarked(last.events[1], "reply", last.inp.original)
        /\ \A i \in 2..Len(last.events) :
              /\ OneMarked(last.events[i], "root", last.events[1].id)
              /\ OneMarked(last.events[i], "reply", last.events[i - 1].id)

\* a revision series of three patches: the second patch keeps its Root and
\* its Reply tag to the first, the third replies to the second
C13_Witness ==
    /\ HasBuilt /\ last.op = "patch send"
    /\ last.inp.patches = 3 /\ last.inp.original = "R"
    /\ OneMarked(last.events[1], "reply", "R")
    /\ OneMarked(last.events[2], "root", "p1") /\ OneMarked(last.events[2], "reply", "p1")
    /\ OneMarked(last.events[3], "root", "p1") /\ OneMarked(last.events[3], "reply", "p2")

(***************************************************************************)
(* Claims on the relays a command publishes to.                            *)
(***************************************************************************)
\* no element of the sequence occurs twice
NoDuplicate(seq) == \A i, j \in 1..Len(seq) : seq[i] = seq[j] => i = j

\* C14: the relay sequence a status command obtains by merging its sources
\* contains no URL twice, and deduplicating an already deduplicated sequence
\* leaves it unchanged.
C14_MergedRelaysUnique ==
    (last.op \in StatusOps /\ last.pc = "published") =>
        /\ NoDuplicate(write_relays(last))
        /\ dedup(dedup(write_relays(last))) = dedup(write_relays(last))

\* a status event was published for two repositories whose announcements
\* list the same relay: the merged sequence holds that relay twice
C14_DuplicateRelay ==
    /\ last.op \in StatusOps /\ last.pc = "published"
    /\ naddrs = <<"c1", "c2">>
    /\ Cardinality({i \in 1..Len(write_relays(last)) :
                       write_relays(last)[i] = "wss://r2"}) = 2
    /\ NoDuplicate(dedup(write_relays(last)))

(***************************************************************************)
(* The relay deduplication and the nevent / naddr built from a relay list, *)
(* applied to relay lists drawn as inputs.                                 *)
(***************************************************************************)
\* the longest relay list drawn as an input
MaxRelays == 4

\* the relay URLs of the inputs
RelayUrls == {"wss://r1", "wss://r2", "wss://r3", "wss://r4"}

\* the relay lists drawn as inputs
RelayInputs == UNION {[1..n -> RelayUrls] : n \in 0..MaxRelays}

\* Iterator::take
Take(seq, n) == SubSeq(seq, 1, IF Len(seq) < n THEN Len(seq) ELSE n)

\* utils::new_nevent: the event id and up to 3 of the deduplicated relays
new_nevent(event_id, relays) ==
    [event_id |-> event_id, relays |-> Take(dedup(relays), 3)]

\* utils::repo_naddr: the coordinate and up to 3 of the deduplicated relays
repo_naddr(repo_id, pubk, relays) ==
    [coordinate |-> [kind |-> "GitRepoAnnouncement", public_key |-> pubk,
                     identifier |-> repo_id],
     relays |-> Take(dedup(relays), 3)]

InitRelays ==
    /\ store = {}
    /\ res = NoRes
    /\ family = "none"
    /\ naddrs = <<>>
    /\ repoStore = {}
    /\ last \in {[op |-> "relays", relays |-> relays] : relays \in RelayInputs}
    /\ cmd = NoCmd
    /\ net = NoNet

\* utils::dedup on the relay list
Dedup ==
    /\ res' = [fn |-> "dedup", relays |-> dedup(last.relays)]
    /\ UNCHANGED <<store, family, naddrs, repoStore, last, cmd, net>>

\* utils::new_nevent on the relay list
NewNevent ==
    /\ res' = [fn |-> "new_nevent", relays |-> new_nevent("e1", last.relays).relays]
    /\ UNCHANGED <<store, family, naddrs, repoStore, last, cmd, net>>

\* utils::repo_naddr on the relay list
RepoNaddr ==
    /\ res' = [fn |-> "repo_naddr", relays |-> repo_naddr("c1", "o", last.relays).relays]
    /\ UNCHANGED <<store, family, naddrs, repoStore, last, cmd, net>>

NextRelays ==
    \/ Dedup
    \/ NewNevent
    \/ RepoNaddr

SpecRelays == InitRelays /\ [][NextRelays]_vars

RECURSIVE FirstOccurrences(_)
\* the distinct elements of the sequence, each at the place of its first
\* occurrence
FirstOccurrences(seq) ==
    IF seq = <<>> THEN <<>>
    ELSE LET init == FirstOccurrences(SubSeq(seq, 1, Len(seq) - 1))
             x == seq[Len(seq)]
         IN IF x \in ToSet(init) THEN init ELSE Append(init, x)

\* C15: the relay deduplication keeps each distinct URL at the position of
\* its first occurrence in the input, so that new_nevent and repo_naddr keep
\* the first 3 distinct relays of the input, those of highest precedence.
C15_FirstOccurrenceOrder ==
    /\ res.fn = "dedup" => res.relays = FirstOccurrences(last.relays)
    /\ res.fn \in {"new_nevent", "repo_naddr"} =>
          res.relays = Take(FirstOccurrences(last.relays), 3)

\* four distinct relays given in descending order: the nevent keeps the three
\* smallest URLs and drops the relay that came first
C15_FirstRelayDropped ==
    /\ res.fn = "new_nevent"
    /\ last.relays = <<"wss://r4", "wss://r3", "wss://r2", "wss://r1">>
    /\ res.relays = <<"wss://r1", "wss://r2", "wss://r3">>

(***************************************************************************)
(* Claims on the relays the commands that build new events publish to.     *)
(***************************************************************************)
\* the read relays of the user: the entries of the relay list whose marker
\* is absent or Read
ReadRelays(user) ==
    {RelayList(user)[i].url : i \in {j \in 1..Len(RelayList(user)) :
                                        RelayList(user)[j].marker \in {"None", "Read"}}}

\* C16: the relays a publishing command passes to publish contain the read
\* relays of every target repository owner and maintainer whose relay list
\* can be fetched; `issue new` includes those of the owner of every target
\* repository, the first one included.
C16_RecipientsReadRelays ==
    HasBuilt =>
        \A key \in Recipients(naddrs) \cap last.inp.lists :
           ReadRelays(key) \subseteq ToSet(last.write_relays)

\* `issue new` on one repository whose owner has a relay list: the read relay
\* of the owner is not among the relays the issue is published to
C16_FirstOwnerSkipped ==
    /\ HasBuilt /\ last.op = "issue new" /\ naddrs = <<"c1">>
    /\ "o" \in last.inp.lists /\ last.inp.user = "a"
    /\ ReadRelays("o") = {"wss://r4"}
    /\ "wss://r4" \notin ToSet(last.write_relays)
    /\ last.to = ToSet(last.write_relays)

(***************************************************************************)
(* The status <-> kind mapping, applied to statuses and kinds drawn as     *)
(* inputs.                                                                 *)
(***************************************************************************)
\* how far below and above the status kinds the kinds drawn as inputs reach
KindSpan == 60

\* the kinds drawn as inputs: the smallest and largest kind (u16), a text
\* note, and the kinds around the status kinds
KindInputs ==
    {0, 1, 65535} \cup ((GitStatusOpen - KindSpan)..(GitStatusDraft + KindSpan))

PatchPrStatuses == {"Open", "MergedApplied", "Closed", "Draft"}

IssueStatuses == {"Open", "Resolved", "Closed"}

\* the Result of PatchPrStatus::try_from: the status, or the error
\* InvalidPatchStatus(kind)
PatchPrStatus_try_from_result(kind) ==
    LET status == PatchPrStatus_try_from(kind)
    IN IF status = "InvalidPatchStatus"
       THEN [ok |-> FALSE, err |-> "InvalidPatchStatus", kind |-> kind]
       ELSE [ok |-> TRUE, status |-> status]

\* the Result of IssueStatus::try_from: the status, or the error
\* InvalidIssueStatus(kind)
IssueStatus_try_from_result(kind) ==
    LET status == IssueStatus_try_from(kind)
    IN IF status = "InvalidIssueStatus"
       THEN [ok |-> FALSE, err |-> "InvalidIssueStatus", kind |-> kind]
       ELSE [ok |-> TRUE, status |-> status]

InitStatusKind ==
    /\ store = {}
    /\ res = NoRes
    /\ family \in {"issue", "patch"}
    /\ naddrs = <<>>
    /\ repoStore = {}
    /\ last \in {[op |-> "kind", kind |-> k] : k \in KindInputs}
                \cup {[op |-> "status", status |-> s] : s \in PatchPrStatuses \cup IssueStatuses}
    /\ (last.op = "status" /\ family = "issue") => last.status \in IssueStatuses
    /\ (last.op = "status" /\ family = "patch") => last.status \in PatchPrStatuses
    /\ cmd = NoCmd
    /\ net = NoNet

\* PatchPrStatus::kind, and the kind decoded again
PatchPrKind ==
    /\ last.op = "status" /\ family = "patch"
    /\ res' = [fn |-> "PatchPrStatus::kind", kind |-> PatchPrStatus_kind(last.status),
               back |-> PatchPrStatus_try_from_result(PatchPrStatus_kind(last.status))]
    /\ UNCHANGED <<store, family, naddrs, repoStore, last, cmd, net>>

\* IssueStatus::kind, and the kind decoded again
IssueKind ==
    /\ last.op = "status" /\ family = "issue"
    /\ res' = [fn |-> "IssueStatus::kind", kind |-> IssueStatus_kind(last.status),
               back |-> IssueStatus_try_from_result(IssueStatus_kind(last.status))]
    /\ UNCHANGED <<store, family, naddrs, repoStore, last, cmd, net>>

\* PatchPrStatus::try_from
PatchPrTryFrom ==
    /\ last.op = "kind" /\ family = "patch"
    /\ res' = [fn |-> "PatchPrStatus::try_from",
               result |-> PatchPrStatus_try_from_result(last.kind)]
    /\ UNCHANGED <<store, family, naddrs, repoStore, last, cmd, net>>

\* IssueStatus::try_from
IssueTryFrom ==
    /\ last.op = "kind" /\ family = "issue"
    /\ res' = [fn |-> "IssueStatus::try_from",
               result |-> IssueStatus_try_from_result(last.kind)]
    /\ UNCHANGED <<store, family, naddrs, repoStore, last, cmd, net>>

NextStatusKind ==
    \/ PatchPrKind
    \/ IssueKind
    \/ PatchPrTryFrom
    \/ IssueTryFrom

SpecStatusKind == InitStatusKind /\ [][NextStatusKind]_vars

\* C17: the status <-> kind mapping is a bijection on its fixed kind set:
\* decoding the kind of a status gives the status back, distinct statuses
\* have distinct kinds, a kind of the set decodes to the status of that kind,
\* and any other kind decodes to the error InvalidPatchStatus /
\* InvalidIssueStatus carrying that kind, never to Open.
C17_StatusKindBijection ==
    /\ res.fn \in {"PatchPrStatus::kind", "IssueStatus::kind"} =>
          res.back = [ok |-> TRUE, status |-> last.status]
    /\ res.fn = "PatchPrStatus::kind" =>
          \A s \in PatchPrStatuses \ {last.status} : PatchPrStatus_kind(s) # res.kind
    /\ res.fn = "IssueStatus::kind" =>
          \A s \in IssueStatuses \ {last.status} : IssueStatus_kind(s) # res.kind
    /\ res.fn = "PatchPrStatus::try_from" =>
          IF last.kind \in {GitStatusOpen, GitStatusApplied, GitStatusClosed, GitStatusDraft}
          THEN res.result.ok /\ res.result.status \in PatchPrStatuses
               /\ PatchPrStatus_kind(res.result.status) = last.kind
          ELSE res.result = [ok |-> FALSE, err |-> "InvalidPatchStatus", kind |-> last.kind]
    /\ res.fn = "IssueStatus::try_from" =>
          IF last.kind \in {GitStatusOpen, GitStatusApplied, GitStatusClosed}
          THEN res.result.ok /\ res.result.status \in IssueStatuses
               /\ IssueStatus_kind(res.result.status) = last.kind
          ELSE res.result = [ok |-> FALSE, err |-> "InvalidIssueStatus", kind |-> last.kind]

\* the Draft kind, decoded as the status of an issue, is an error that
\* carries the kind
C17_Witness ==
    /\ res.fn = "IssueStatus::try_from" /\ last.kind = GitStatusDraft
    /\ res.result = [ok |-> FALSE, err |-> "InvalidIssueStatus", kind |-> 1633]

\* the kind of Draft decodes to Draft again, and a kind next to the status
\* kinds is not a patch status
C17_WitnessPatch ==
    \/ res.fn = "PatchPrStatus::kind" /\ last.status = "Draft" /\ res.kind = 1633
    \/ res.fn = "PatchPrStatus::try_from" /\ last.kind = 1634 /\ ~res.result.ok

\* C18: `issue new`, `pr new`, `pr update` and `patch send`, run without a
\* repository coordinate and without a nostr-address file, end with the
\* error EmptyNaddrs, do not panic, and publish no event.
C18_EmptyNaddrsIsAnError ==
    (last.op \in Constructors /\ naddrs = <<>>) =>
        /\ ~last.panic
        /\ last.err = "EmptyNaddrs"
        /\ last.events = <<>> /\ last.published = {} /\ last.to = {}

\* `issue new` without a coordinate panicked; nothing was published
C18_IssueNewPanics ==
    /\ last.op = "issue new" /\ naddrs = <<>>
    /\ last.panic /\ last.err = "none"
    /\ last.published = {} /\ last.to = {}

\* the three other commands ended with EmptyNaddrs
C18_OthersFail ==
    /\ last.op \in {"pr new", "pr update", "patch send"} /\ naddrs = <<>>
    /\ ~last.panic /\ last.err = "EmptyNaddrs" /\ last.published = {}

(***************************************************************************)
(* The file name of a patch, derived from its subject.  A subject is a     *)
(* sequence of characters.                                                 *)
(***************************************************************************)
\* the number of characters patch_file_name takes from the subject's text
SlugLength == 60

Digits == {"0", "1", "2", "3", "4", "5", "6", "7", "8", "9"}

LowerLetters ==
    {"a", "b", "c", "d", "e", "f", "g", "h", "i", "j", "k", "l", "m",
     "n", "o", "p", "q", "r", "s", "t", "u", "v", "w", "x", "y", "z"}

UpperLetters ==
    {"A", "B", "C", "D", "E", "F", "G", "H", "I", "J", "K", "L", "M",
     "N", "O", "P", "Q", "R", "S", "T", "U", "V", "W", "X", "Y", "Z"}

Whitespace == {" "}

\* char::to_lowercase on the characters of the model
LowerChar(c) ==
    CASE c = "A" -> "a" [] c = "B" -> "b" [] c = "C" -> "c" [] c = "D" -> "d"
      [] c = "E" -> "e" [] c = "F" -> "f" [] c = "G" -> "g" [] c = "H" -> "h"
      [] c = "I" -> "i" [] c = "J" -> "j" [] c = "K" -> "k" [] c = "L" -> "l"
      [] c = "M" -> "m" [] c = "N" -> "n" [] c = "O" -> "o" [] c = "P" -> "p"
      [] c = "Q" -> "q" [] c = "R" -> "r" [] c = "S" -> "s" [] c = "T" -> "t"
      [] c = "U" -> "u" [] c = "V" -> "v" [] c = "W" -> "w" [] c = "X" -> "x"
      [] c = "Y" -> "y" [] c = "Z" -> "z" [] OTHER -> c

\* str::to_lowercase
to_lowercase(s) == [i \in 1..Len(s) |-> LowerChar(s[i])]

\* the pattern occurs in the sequence at the position
StartsWithAt(s, i, p) ==
    i + Len(p) - 1 <= Len(s) /\ SubSeq(s, i, i + Len(p) - 1) = p

\* str::contains
Contains(s, p) == \E i \in 1..(Len(s) + 1) : StartsWithAt(s, i, p)

RECURSIVE RunLength(_, _, _)
\* the length of the longest run of characters of the class that starts at
\* the position
RunLength(s, i, class) ==
    IF i <= Len(s) /\ s[i] \in class THEN 1 + RunLength(s, i + 1, class) ELSE 0

\* str::trim (whitespace at both ends)
trim(s) ==
    IF \A i \in 1..Len(s) : s[i] \in Whitespace THEN <<>>
    ELSE LET first == CHOOSE i \in 1..Len(s) :
                         s[i] \notin Whitespace /\ \A j \in 1..(i - 1) : s[j] \in Whitespace
             final == CHOOSE i \in 1..Len(s) :
                         s[i] \notin Whitespace /\ \A j \in (i + 1)..Len(s) : s[j] \in Whitespace
         IN SubSeq(s, first, final)

\* str::trim_matches('-')
trim_matches(s) ==
    IF \A i \in 1..Len(s) : s[i] = "-" THEN <<>>
    ELSE LET first == CHOOSE i \in 1..Len(s) :
                         s[i] # "-" /\ \A j \in 1..(i - 1) : s[j] = "-"
             final == CHOOSE i \in 1..Len(s) :
                         s[i] # "-" /\ \A j \in (i + 1)..Len(s) : s[j] = "-"
         IN SubSeq(s, first, final)

RECURSIVE replace_dashes(_)
\* str::replace("--", "-"): the non-overlapping pairs, from the left
replace_dashes(s) ==
    IF Len(s) < 2 THEN s
    ELSE IF s[1] = "-" /\ s[2] = "-" THEN <<"-">> \o replace_dashes(SubSeq(s, 3, Len(s)))
    ELSE <<s[1]>> \o replace_dashes(Tail(s))

\* `\d+/(?:\d+)` at the position: the digits in front of the slash
CounterAt(s, k) ==
    LET n == RunLength(s, k, Digits)
    IN IF n >= 1 /\ k + n <= Len(s) /\ s[k + n] = "/"
          /\ RunLength(s, k + n + 1, Digits) >= 1
       THEN [ok |-> TRUE, number |-> SubSeq(s, k, k + n - 1)]
       ELSE [ok |-> FALSE, number |-> <<>>]

\* `(?:v(?<version>\d+)\s*)?(?<number>\d+)/(?:\d+)` at the position: the
\* version takes as many digits as the rest of the pattern allows
VersionAndCounterAt(s, k) ==
    LET digits == RunLength(s, k + 1, Digits)
        spaces == RunLength(s, k + 1 + digits, Whitespace)
        whole == CounterAt(s, k + 1 + digits + spaces)
        split == CounterAt(s, k + digits)
    IN IF k <= Len(s) /\ s[k] = "v" /\ digits >= 1 /\ whole.ok
       THEN [ok |-> TRUE, version |-> SubSeq(s, k + 1, k + digits),
             number |-> whole.number]
       ELSE IF k <= Len(s) /\ s[k] = "v" /\ digits >= 2 /\ split.ok
       THEN [ok |-> TRUE, version |-> SubSeq(s, k + 1, k + digits - 1),
             number |-> split.number]
       ELSE LET plain == CounterAt(s, k)
            IN [ok |-> plain.ok, version |-> <<>>, number |-> plain.number]

\* PATCH_VERSION_NUMBER_RE at the position
PatchVersionNumberAt(s, i) ==
    LET spaces == RunLength(s, i + 6, Whitespace)
    IN IF StartsWithAt(s, i, <<"[", "P", "A", "T", "C", "H">>) /\ spaces >= 1
       THEN VersionAndCounterAt(s, i + 6 + spaces)
       ELSE [ok |-> FALSE, version |-> <<>>, number |-> <<>>]

\* PATCH_VERSION_NUMBER_RE.captures: the leftmost match
PATCH_VERSION_NUMBER_RE(s) ==
    IF \E i \in 1..Len(s) : PatchVersionNumberAt(s, i).ok
    THEN PatchVersionNumberAt(s, CHOOSE i \in 1..Len(s) :
                                    /\ PatchVersionNumberAt(s, i).ok
                                    /\ \A j \in 1..(i - 1) : ~PatchVersionNumberAt(s, j).ok)
    ELSE [ok |-> FALSE, version |-> <<>>, number |-> <<>>]

\* patch_version_and_subject: "v<version>-" or nothing, and the number
patch_version_and_subject(subject) ==
    LET captures == PATCH_VERSION_NUMBER_RE(subject)
    IN IF ~captures.ok THEN [ok |-> FALSE, err |-> "InvalidEvent"]
       ELSE [ok |-> TRUE,
             version |-> IF captures.version = <<>> THEN <<>>
                         ELSE <<"v">> \o captures.version \o <<"-">>,
             number |-> captures.number]

\* the characters a file name keeps: ASCII letters and digits, '.', '-', '_'
KeptChar(c) == c \in LowerLetters \cup UpperLetters \cup Digits \cup {".", "-", "_"}

\* patch_file_name: the text after the first `]`, trimmed, lowercased, every
\* other character replaced by '-', the first 60 characters of that, without
\* '-' at the ends, and then the pairs of '-' replaced by one
patch_file_name(subject) ==
    IF ~Contains(subject, <<"]">>) THEN [ok |-> FALSE, err |-> "InvalidEvent"]
    ELSE LET bracket == CHOOSE i \in 1..Len(subject) :
                           subject[i] = "]" /\ \A j \in 1..(i - 1) : subject[j] # "]"
             text == to_lowercase(trim(SubSeq(subject, bracket + 1, Len(subject))))
             replaced == [i \in 1..Len(text) |-> IF KeptChar(text[i]) THEN text[i] ELSE "-"]
             taken == SubSeq(replaced, 1,
                             IF Len(replaced) < SlugLength THEN Len(replaced)
                             ELSE SlugLength)
         IN [ok |-> TRUE, name |-> replace_dashes(trim(trim_matches(taken)))]

\* format!("{patch_number:0>4}"): zeros on the left up to 4 characters
pad_number(number) ==
    [i \in 1..(IF Len(number) < 4 THEN 4 - Len(number) ELSE 0) |-> "0"] \o number

\* Path::with_extension("patch") on a file name: what follows the last '.'
\* of the name (the first character aside) is its extension and is replaced
with_extension(name) ==
    LET dots == {i \in 2..Len(name) : name[i] = "."}
        dot == CHOOSE i \in dots : \A j \in dots : j <= i
    IN (IF dots = {} THEN name ELSE SubSeq(name, 1, dot - 1))
       \o <<".", "p", "a", "t", "c", "h">>

\* GitPatch::filename (with an empty parent directory)
filename(subject) ==
    LET plain == Contains(subject, <<"[", "P", "A", "T", "C", "H", "]">>)
        parsed == IF plain THEN [ok |-> TRUE, version |-> <<>>, number |-> <<"1">>]
                  ELSE patch_version_and_subject(subject)
    IN IF ~parsed.ok THEN [ok |-> FALSE, err |-> parsed.err]
       ELSE LET patch_name ==
                    IF parsed.number = <<"0">>
                    THEN [ok |-> TRUE, name |-> <<"c", "o", "v", "e", "r", "-",
                                                  "l", "e", "t", "t", "e", "r">>]
                    ELSE patch_file_name(subject)
            IN IF ~patch_name.ok THEN [ok |-> FALSE, err |-> patch_name.err]
               ELSE [ok |-> TRUE,
                     path |-> with_extension(
                                replace_dashes(parsed.version \o pad_number(parsed.number)
                                               \o <<"-">> \o patch_name.name))]

\* the bracket parts of the subjects drawn as inputs
\* "[PATCH]"
HeadPlain ==
    <<"[", "P", "A", "T", "C", "H", "]">>
\* "[PATCH 0/3]"
HeadCover ==
    <<"[", "P", "A", "T", "C", "H", " ", "0", "/", "3", "]">>
\* "[PATCH 1/3]"
HeadFirst ==
    <<"[", "P", "A", "T", "C", "H", " ", "1", "/", "3", "]">>
\* "[PATCH v2 0/3]"
HeadVersionCover ==
    <<"[", "P", "A", "T", "C", "H", " ", "v", "2", " ", "0", "/", "3", "]">>
\* "[PATCH v2 1/3]"
HeadVersionFirst ==
    <<"[", "P", "A", "T", "C", "H", " ", "v", "2", " ", "1", "/", "3", "]">>
\* "[PATCH v42 23/30]"
HeadVersionLong ==
    <<"[", "P", "A", "T", "C", "H", " ", "v", "4", "2", " ", "2", "3", "/",
      "3", "0", "]">>
\* "[PATCH 00/12]"
HeadPaddedCover ==
    <<"[", "P", "A", "T", "C", "H", " ", "0", "0", "/", "1", "2", "]">>
\* "[PATCH 01/12]"
HeadPaddedFirst ==
    <<"[", "P", "A", "T", "C", "H", " ", "0", "1", "/", "1", "2", "]">>
\* "[PATCH  v3  7/9]"
HeadWide ==
    <<"[", "P", "A", "T", "C", "H", " ", " ", "v", "3", " ", " ", "7", "/",
      "9", "]">>
\* "[PATCH v12/3]"
HeadGlued ==
    <<"[", "P", "A", "T", "C", "H", " ", "v", "1", "2", "/", "3", "]">>
\* "[RFC v5 1/2]"
HeadRfc ==
    <<"[", "R", "F", "C", " ", "v", "5", " ", "1", "/", "2", "]">>
\* ""
HeadNone == <<>>
\* "[PATCH v5 /2]"
HeadNoNumber ==
    <<"[", "P", "A", "T", "C", "H", " ", "v", "5", " ", "/", "2", "]">>
\* "[PATCH v5 2/]"
HeadNoTotal ==
    <<"[", "P", "A", "T", "C", "H", " ", "v", "5", " ", "2", "/", "]">>
\* "[PATCH 1/2"
HeadOpen ==
    <<"[", "P", "A", "T", "C", "H", " ", "1", "/", "2">>
\* "[PATCH 12345/20000]"
HeadBig ==
    <<"[", "P", "A", "T", "C", "H", " ", "1", "2", "3", "4", "5", "/", "2",
      "0", "0", "0", "0", "]">>

\* the texts of the subjects drawn as inputs
\* " feat: Some test just a test"
TextTest ==
    <<" ", "f", "e", "a", "t", ":", " ", "S", "o", "m", "e", " ", "t", "e",
      "s", "t", " ", "j", "u", "s", "t", " ", "a", " ", "t", "e", "s", "t">>
\* " Something"
TextWord ==
    <<" ", "S", "o", "m", "e", "t", "h", "i", "n", "g">>
\* " bump v1.2 now"
TextDotted ==
    <<" ", "b", "u", "m", "p", " ", "v", "1", ".", "2", " ", "n", "o", "w">>
\* " a - b"
TextDashed ==
    <<" ", "a", " ", "-", " ", "b">>
\* " fix a     b"
TextSpaced ==
    <<" ", "f", "i", "x", " ", "a", " ", " ", " ", " ", " ", "b">>
\* " feat: some long subject some long subject some long subject some long subject"
TextLong ==
    <<" ", "f", "e", "a", "t", ":", " ", "s", "o", "m", "e", " ", "l", "o",
      "n", "g", " ", "s", "u", "b", "j", "e", "c", "t", " ", "s", "o", "m",
      "e", " ", "l", "o", "n", "g", " ", "s", "u", "b", "j", "e", "c", "t",
      " ", "s", "o", "m", "e", " ", "l", "o", "n", "g", " ", "s", "u", "b",
      "j", "e", "c", "t", " ", "s", "o", "m", "e", " ", "l", "o", "n", "g",
      " ", "s", "u", "b", "j", "e", "c", "t">>
\* " feat: fix: some long subject some long subject some long subject some long subject"
TextLongTwice ==
    <<" ", "f", "e", "a", "t", ":", " ", "f", "i", "x", ":", " ", "s", "o",
      "m", "e", " ", "l", "o", "n", "g", " ", "s", "u", "b", "j", "e", "c",
      "t", " ", "s", "o", "m", "e", " ", "l", "o", "n", "g", " ", "s", "u",
      "b", "j", "e", "c", "t", " ", "s", "o", "m", "e", " ", "l", "o", "n",
      "g", " ", "s", "u", "b", "j", "e", "c", "t", " ", "s", "o", "m", "e",
      " ", "l", "o", "n", "g", " ", "s", "u", "b", "j", "e", "c", "t">>
\* ""
TextEmpty == <<>>
\* " x]y_z"
TextBracket ==
    <<" ", "x", "]", "y", "_", "z">>
\* " -lead and trail- "
TextEdge ==
    <<" ", "-", "l", "e", "a", "d", " ", "a", "n", "d", " ", "t", "r", "a",
      "i", "l", "-", " ">>

SubjectHeads ==
    {HeadPlain,
     HeadCover,
     HeadFirst,
     HeadVersionCover,
     HeadVersionFirst,
     HeadVersionLong,
     HeadPaddedCover,
     HeadPaddedFirst,
     HeadWide,
     HeadGlued,
     HeadRfc,
     HeadNone,
     HeadNoNumber,
     HeadNoTotal,
     HeadOpen,
     HeadBig}

SubjectTexts ==
    {TextTest,
     TextWord,
     TextDotted,
     TextDashed,
     TextSpaced,
     TextLong,
     TextLongTwice,
     TextEmpty,
     TextBracket,
     TextEdge}

\* the subjects drawn as inputs
SubjectInputs == {head \o text : head \in SubjectHeads, text \in SubjectTexts}

InitFilename ==
    /\ store = {}
    /\ res = NoRes
    /\ family = "patch"
    /\ naddrs = <<>>
    /\ repoStore = {}
    /\ last \in {[op |-> "subject", subject |-> s] : s \in SubjectInputs}
    /\ cmd = NoCmd
    /\ net = NoNet

\* GitPatch::filename on the subject
Filename ==
    /\ res' = [fn |-> "filename", result |-> filename(last.subject)]
    /\ UNCHANGED <<store, family, naddrs, repoStore, last, cmd, net>>

NextFilename == Filename

SpecFilename == InitFilename /\ [][NextFilename]_vars

(***************************************************************************)
(* Claims on the file name of a patch (SpecFilename).                      *)
(***************************************************************************)
CoverLetter == <<"c", "o", "v", "e", "r", "-", "l", "e", "t", "t", "e", "r">>

PatchExtension == <<".", "p", "a", "t", "c", "h">>

\* the subject contains `[PATCH]`
PlainSubject(s) == Contains(s, <<"[", "P", "A", "T", "C", "H", "]">>)

\* the subject contains `[PATCH]`, or `[PATCH` followed by an optional
\* v<N> and a number/total counter
AcceptedSubject(s) == PlainSubject(s) \/ PATCH_VERSION_NUMBER_RE(s).ok

\* the number of the subject, as it is written
NumberOf(s) == IF PlainSubject(s) THEN <<"1">> ELSE PATCH_VERSION_NUMBER_RE(s).number

\* the version prefix of the subject: `v<N>-` or nothing
VersionPrefixOf(s) ==
    IF PlainSubject(s) \/ PATCH_VERSION_NUMBER_RE(s).version = <<>> THEN <<>>
    ELSE <<"v">> \o PATCH_VERSION_NUMBER_RE(s).version \o <<"-">>

\* the number is 0
IsZero(number) == number # <<>> /\ ToSet(number) = {"0"}

\* C19: GitPatch::filename on a subject with `[PATCH]` uses the number 1 and
\* no version prefix; any other subject must contain `[PATCH` followed by an
\* optional v<N> and a number/total counter, else the result is InvalidEvent;
\* on success the name is the version prefix, the number left-padded with 0
\* to 4 digits, `-`, the name and `.patch`, where the name is `cover-letter`
\* when the number is 0 and the slug of the subject otherwise.
C19_FilenameFormat ==
    res.fn = "filename" =>
        LET s == last.subject
        IN /\ ~AcceptedSubject(s) => res.result = [ok |-> FALSE, err |-> "InvalidEvent"]
           /\ res.result.ok =>
                 /\ AcceptedSubject(s)
                 /\ res.result.path =
                       VersionPrefixOf(s) \o pad_number(NumberOf(s)) \o <<"-">>
                       \o (IF IsZero(NumberOf(s)) THEN CoverLetter
                           ELSE patch_file_name(s).name)
                       \o PatchExtension

\* the cover letter of a series of 12 patches, numbered 00 by git: the file
\* is named after the subject, not cover-letter
C19_PaddedCoverLetter ==
    /\ res.fn = "filename" /\ last.subject = HeadPaddedCover \o TextWord
    /\ res.result.ok
    /\ res.result.path = <<"0", "0", "0", "0", "-", "s", "o", "m", "e", "t", "h", "i", "n", "g">>
                         \o PatchExtension

\* the cases the formula gets right: a cover letter numbered 0, a versioned
\* patch, a subject without counter
C19_CoverLetterNamed ==
    \/ /\ res.fn = "filename" /\ last.subject = HeadVersionCover \o TextWord
       /\ res.result.ok
       /\ res.result.path = <<"v", "2", "-", "0", "0", "0", "0", "-">> \o CoverLetter
                            \o PatchExtension
    \/ /\ res.fn = "filename" /\ last.subject = HeadNoNumber \o TextWord
       /\ ~res.result.ok

\* the characters [a-z0-9._-]
SlugChar(c) == c \in LowerLetters \cup Digits \cup {".", "_", "-"}

RECURSIVE CollapseRuns(_)
\* every maximal run of characters outside [a-z0-9._-] replaced by one `-`
CollapseRuns(s) ==
    IF s = <<>> THEN <<>>
    ELSE IF SlugChar(Head(s)) THEN <<Head(s)>> \o CollapseRuns(Tail(s))
    ELSE LET run == RunLength(s, 1, {c \in ToSet(s) : ~SlugChar(c)})
         IN <<"-">> \o CollapseRuns(SubSeq(s, run + 1, Len(s)))

\* the slug of a subject: the text after the first `]`, lowercased, the runs
\* collapsed, then truncated to 60 characters, then stripped of `-` at both
\* ends
SlugOf(s) ==
    LET bracket == CHOOSE i \in 1..Len(s) : s[i] = "]" /\ \A j \in 1..(i - 1) : s[j] # "]"
        collapsed == CollapseRuns(to_lowercase(SubSeq(s, bracket + 1, Len(s))))
    IN trim_matches(SubSeq(collapsed, 1,
                           IF Len(collapsed) < 60 THEN Len(collapsed) ELSE 60))

\* C20: for every accepted subject with a non-zero number the slug part of
\* the file name is the text after the first `]`, lowercased, every maximal
\* run of characters outside [a-z0-9._-] replaced by a single `-`, truncated
\* to 60 characters (counted on the collapsed text), stripped of leading and
\* trailing `-`; the whole slug, with any `.` in it, is kept in front of the
\* `.patch` extension.
C20_SlugOfSubject ==
    (res.fn = "filename" /\ res.result.ok /\ ~IsZero(NumberOf(last.subject))) =>
        res.result.path =
            VersionPrefixOf(last.subject) \o pad_number(NumberOf(last.subject)) \o <<"-">>
            \o SlugOf(last.subject) \o PatchExtension

\* a long subject with two `: `: the 60 characters were taken before the
\* two `--` were collapsed, so the slug of the file name is 58 characters
\* long where the claimed slug, cut after the collapse, has 59
C20_TruncatedBeforeCollapse ==
    /\ res.fn = "filename" /\ last.subject = HeadFirst \o TextLongTwice
    /\ res.result.ok
    /\ Len(SlugOf(last.subject)) = 59
    /\ res.result.path = <<"0", "0", "0", "1", "-">> \o SubSeq(SlugOf(last.subject), 1, 58)
                         \o PatchExtension

\* a subject with a version number in its text: what follows the last `.`
\* of the slug is replaced by the extension
C20_DotCutsTheSlug ==
    /\ res.fn = "filename" /\ last.subject = HeadFirst \o TextDotted
    /\ res.result.ok
    /\ res.result.path = <<"0", "0", "0", "1", "-", "b", "u", "m", "p", "-", "v", "1">>
                         \o PatchExtension

\* a short subject without `.`: the file name is the claimed one
C20_ShortSubject ==
    /\ res.fn = "filename" /\ last.subject = HeadVersionFirst \o TextTest
    /\ res.result.ok
    /\ res.result.path = <<"v", "2", "-", "0", "0", "0", "1", "-">>
                         \o SlugOf(last.subject) \o PatchExtension

(***************************************************************************)
(* Claims on revision patches and status commands (SpecPipeline).          *)
(***************************************************************************)
\* the command is a patch status command given the root-revision patch V
OnRevision == cmd.pc # "idle" /\ cmd.op \in PatchOps /\ cmd.id = "V"

\* the entity step of the command was taken (it succeeded or it failed)
EntityStepTaken == Len(cmd.log) >= 2 /\ cmd.pc # "repos"

\* C21: a patch status command whose target is a root-revision patch and whose
\* new status is Open, Closed or Draft is rejected with InvalidStatus before
\* the current status is queried, and publishes nothing; only the transitions
\* to MergedApplied (apply, merge) are evaluated for a revision.
C21_RevisionOnlyMergedApplied ==
    OnRevision =>
        /\ new_status(cmd.op) # "MergedApplied" =>
              /\ Len(cmd.log) <= 2
              /\ cmd.status = "none" /\ cmd.event = NoEvent
              /\ net = NoNet /\ store \in StartStores(family)
              /\ EntityStepTaken =>
                    /\ cmd.pc = "failed" /\ cmd.err = "InvalidStatus"
                    /\ cmd.msg = RevisionMessage
        /\ (new_status(cmd.op) = "MergedApplied" /\ EntityStepTaken) =>
              /\ Len(cmd.log) >= 3 /\ cmd.root = "R" /\ cmd.revision = "V"
              /\ cmd.msg # RevisionMessage

\* `patch close` of the revision was refused while the root patch has a status
\* event that would have let the guard accept
C21_Witness ==
    /\ OnRevision /\ cmd.op = "patch close"
    /\ cmd.pc = "failed" /\ cmd.err = "InvalidStatus" /\ cmd.msg = RevisionMessage
    /\ \E e \in store : e.kind = GitStatusOpen

\* `patch merge` of the revision went through its guard and was published
C21_WitnessMerge ==
    /\ OnRevision /\ cmd.op = "patch merge" /\ cmd.pc = "published" /\ net.sent

(***************************************************************************)
(* Root discovery: NostrClient::find_root, step by step, on an event store *)
(* drawn as an input.  The id of an event is the hash of its content, tags *)
(* included, so an event refers only to events that existed before it: the *)
(* events of a store are numbered in an order of creation and refer to     *)
(* lower numbers.                                                          *)
(***************************************************************************)
\* the number of events of an input store
MaxEvents == 3

\* no `E` (root) or `e` (parent) tag
NoTarget == 0

\* is_root_kind with the pull request update kind left out
is_root_kind_no_pr_update(kind) == kind \in {"GitPr", "GitIssue", "GitPatch"}

\* KindExt::is_root_kind
is_root_kind(kind) == kind \in {"GitPr", "GitPrUpdate", "GitIssue", "GitPatch"}

\* KindExt::can_reply_to
can_reply_to(kind) == kind = "Comment" \/ is_root_kind(kind)

\* an event of the store: its id, its kind, the event id of its first `E` tag
\* and of its first `e` tag
ChainEvent(id, kind, root, parent) ==
    [id |-> id, kind |-> kind, root |-> root, parent |-> parent]

\* nip22::extract_root, when the target is an event: its id
extract_root(event) == event.root

\* nip22::extract_parent, when the target is an event: its id
extract_parent(event) == event.parent

\* the events the i-th event of an input store is drawn from: a comment or a
\* text note with any references to earlier events, an issue, a pull request
\* update
EventsAt(i) ==
    {ChainEvent(i, k, r, p) : k \in {"Comment", "TextNote"}, r \in 0..(i-1), p \in 0..(i-1)}
    \cup {ChainEvent(i, k, NoTarget, NoTarget) : k \in {"GitIssue", "GitPrUpdate"}}

RECURSIVE ChainStores(_)
\* the input stores of n events (the i-th element is the event of id i)
ChainStores(n) ==
    IF n = 0 THEN {<<>>}
    ELSE {Append(s, e) : s \in ChainStores(n - 1), e \in EventsAt(n)}

\* what the relays answer to a fetch: the event, no event, or an error
FetchOutcomes == {"event", "none", "error"}

\* NostrClient::fetch_event(Filter::new().id(id)) on the store st
fetch_event_id(st, id, outcome) ==
    CASE outcome = "error" -> [ok |-> FALSE, some |-> FALSE, event |-> ChainEvent(0, "none", 0, 0)]
      [] outcome = "event" /\ id \in 1..Len(st) -> [ok |-> TRUE, some |-> TRUE, event |-> st[id]]
      [] OTHER -> [ok |-> TRUE, some |-> FALSE, event |-> ChainEvent(0, "none", 0, 0)]

\* the results of find_root
Pending == [tag |-> "pending", id |-> 0, err |-> "none"]
OkSome(event) == [tag |-> "Some", id |-> event.id, err |-> "none"]
OkNone == [tag |-> "None", id |-> 0, err |-> "none"]
Err(err) == [tag |-> "Err", id |-> 0, err |-> err]

\* the record of the last fetch: the reference followed and what the relays
\* answered
Fetched(via, fetched) ==
    [via |-> via, ok |-> fetched.ok, some |-> fetched.some, id |-> fetched.event.id]

\* no fetch yet
NoFetch == [via |-> "none", ok |-> FALSE, some |-> FALSE, id |-> 0]

\* a call of find_root(event) before its first statement
FindRootCall(event) ==
    [pc |-> "enter", start |-> event, event |-> event, hops |-> 0, fetched |-> NoFetch,
     result |-> Pending]

\* the return of find_root
Return(c, result) == [c EXCEPT !.pc = "done", !.result = result]

\* if !event.kind.can_reply_to() { return Err(CanNotReplyToEvent) }
find_root_enter(c) ==
    IF ~can_reply_to(c.event.kind) THEN Return(c, Err("CanNotReplyToEvent"))
    ELSE [c EXCEPT !.pc = "loop"]

\* the head of the loop: the root kind test and the choice of the reference
\* to follow (the root reference first, the parent reference otherwise)
find_root_loop(c) ==
    IF is_root_kind(c.event.kind) THEN Return(c, OkSome(c.event))
    ELSE IF extract_root(c.event) # NoTarget THEN [c EXCEPT !.pc = "fetch_root"]
    ELSE IF extract_parent(c.event) # NoTarget THEN [c EXCEPT !.pc = "fetch_parent"]
    ELSE Return(c, OkNone)

\* let root_event = self.fetch_event(..).await?; the kind test; return Ok(root_event)
find_root_fetch_root(c, fetched) ==
    LET d == [c EXCEPT !.fetched = Fetched("root", fetched)]
    IN IF ~fetched.ok THEN Return(d, Err("ClientError"))
       ELSE IF fetched.some /\ ~is_root_kind(fetched.event.kind)
       THEN Return(d, Err("CanNotReplyToEvent"))
       ELSE IF fetched.some THEN Return(d, OkSome(fetched.event))
       ELSE Return(d, OkNone)

\* the parent fetch with the assignment `event = parent_event` left out
find_root_fetch_parent_same_event(c, fetched) ==
    LET d == [c EXCEPT !.fetched = Fetched("parent", fetched)]
    IN IF fetched.ok /\ fetched.some
       THEN [d EXCEPT !.pc = "loop"]
       ELSE Return(d, OkNone)

\* if let Ok(Some(parent_event)) = self.fetch_event(..).await
\*     { event = parent_event; continue; }   and the break otherwise
find_root_fetch_parent(c, fetched) ==
    LET d == [c EXCEPT !.fetched = Fetched("parent", fetched)]
    IN IF fetched.ok /\ fetched.some
       THEN [d EXCEPT !.pc = "loop", !.event = fetched.event, !.hops = @ + 1]
       ELSE Return(d, OkNone)

InitFindRoot ==
    /\ store \in ChainStores(MaxEvents)
    /\ \E id \in 1..MaxEvents : cmd = FindRootCall(store[id])
    /\ res = NoRes
    /\ family = "none"
    /\ naddrs = <<>>
    /\ repoStore = {}
    /\ last = NoLast
    /\ net = NoNet

FindRootEnter ==
    /\ cmd.pc = "enter"
    /\ cmd' = find_root_enter(cmd)
    /\ UNCHANGED <<store, res, family, naddrs, repoStore, last, net>>

FindRootLoop ==
    /\ cmd.pc = "loop"
    /\ cmd' = find_root_loop(cmd)
    /\ UNCHANGED <<store, res, family, naddrs, repoStore, last, net>>

FindRootFetchRoot ==
    /\ cmd.pc = "fetch_root"
    /\ \E outcome \in FetchOutcomes :
         cmd' = find_root_fetch_root(cmd, fetch_event_id(store, extract_root(cmd.event), outcome))
    /\ UNCHANGED <<store, res, family, naddrs, repoStore, last, net>>

FindRootFetchParent ==
    /\ cmd.pc = "fetch_parent"
    /\ \E outcome \in FetchOutcomes :
         cmd' = find_root_fetch_parent(cmd, fetch_event_id(store, extract_parent(cmd.event), outcome))
    /\ UNCHANGED <<store, res, family, naddrs, repoStore, last, net>>

NextFindRoot ==
    \/ FindRootEnter
    \/ FindRootLoop
    \/ FindRootFetchRoot
    \/ FindRootFetchParent

SpecFindRoot == InitFindRoot /\ [][NextFindRoot]_vars

\* the task that runs find_root is polled until the future completes
SpecFindRootLive == SpecFindRoot /\ WF_vars(NextFindRoot)

(***************************************************************************)
(* Claims on root discovery (SpecFindRoot, SpecFindRootLive).              *)
(***************************************************************************)
\* the root kinds: issue, patch, pull request, pull request update
RootKinds == {"GitIssue", "GitPatch", "GitPr", "GitPrUpdate"}

\* find_root returned
Returned == cmd.pc = "done"

\* the last fetch of the call
LastFetch == cmd.fetched

\* the last fetch followed a root reference and the relays answered with an
\* event that is not of a root kind
RootReferenceToOther ==
    /\ LastFetch.via = "root"
    /\ LastFetch.ok /\ LastFetch.some
    /\ store[LastFetch.id].kind \notin RootKinds

\* the references ended: the event reached has neither reference, or the
\* relays had no event for the reference followed (or, for a parent
\* reference, the fetch failed)
ReferencesEnded ==
    \/ /\ cmd.event.kind \notin RootKinds
       /\ cmd.event.root = NoTarget /\ cmd.event.parent = NoTarget
       /\ cmd.start.kind = "Comment"
    \/ /\ LastFetch # NoFetch
       /\ ~LastFetch.some
       /\ LastFetch.ok \/ LastFetch.via = "parent"

\* C22: find_root(e) returns the error CanNotReplyToEvent when e is neither a
\* comment nor of a root kind, and when a comment's root reference resolves to
\* an event that is not of a root kind; it returns e itself when e is of a
\* root kind; in every other case the event it returns, if any, is of a root
\* kind, and it returns None when the parent/root references end without
\* reaching one.
C22_FindRootResult ==
    Returned =>
        /\ cmd.result.tag \in {"Some", "None", "Err"}
        /\ (cmd.start.kind # "Comment" /\ cmd.start.kind \notin RootKinds)
              => cmd.result = Err("CanNotReplyToEvent") /\ LastFetch = NoFetch
        /\ RootReferenceToOther => cmd.result = Err("CanNotReplyToEvent")
        /\ cmd.start.kind \in RootKinds
              => cmd.result = OkSome(cmd.start) /\ LastFetch = NoFetch
        /\ cmd.result.tag = "Some" =>
              /\ cmd.result.id \in 1..MaxEvents
              /\ store[cmd.result.id].kind \in RootKinds
        /\ (cmd.start.kind = "Comment" /\ ReferencesEnded) => cmd.result = OkNone
        /\ cmd.result = OkNone => ReferencesEnded
        /\ cmd.result = Err("CanNotReplyToEvent") =>
              \/ cmd.start.kind # "Comment" /\ cmd.start.kind \notin RootKinds
              \/ RootReferenceToOther

\* a comment without a root reference whose parent carries a root reference
\* that resolves to an event of no root kind
C22_Witness ==
    /\ Returned /\ cmd.start.kind = "Comment" /\ cmd.hops = 1
    /\ RootReferenceToOther /\ cmd.result = Err("CanNotReplyToEvent")

\* the root was reached through two parent references
C22_WitnessFound ==
    /\ Returned /\ cmd.hops = 2 /\ cmd.result.tag = "Some"
    /\ store[cmd.result.id].kind = "GitPrUpdate"

\* the given event is a pull request update and is returned itself
C22_WitnessItself ==
    Returned /\ cmd.start.kind = "GitPrUpdate" /\ cmd.result = OkSome(cmd.start)

\* the chain of parents ended at a text note without references
C22_WitnessNone ==
    /\ Returned /\ cmd.hops = 2 /\ cmd.event.kind = "TextNote"
    /\ cmd.result = OkNone /\ LastFetch.some

\* C23: find_root terminates on every finite event store: the loop that
\* follows parent references always ends with a root, None or an error, also
\* when a fetch fails or returns no event, without any bound on the number of
\* hops.
C23_FindRootTerminates ==
    <>(Returned /\ cmd.result.tag \in {"Some", "None", "Err"})

\* the call returned after it followed a parent reference from every event of
\* the store but the first
C23_Witness ==
    /\ Returned /\ cmd.hops = MaxEvents - 1 /\ LastFetch.via = "parent"

\* the call returned None because the fetch of a parent failed after one hop
C23_WitnessFetchFailed ==
    /\ Returned /\ cmd.hops = 1
    /\ LastFetch.via = "parent" /\ ~LastFetch.ok
    /\ cmd.result = OkNone

\* the call returned None because the relays had no event for a parent reference
C23_WitnessNoEvent ==
    /\ Returned
    /\ LastFetch.via = "parent" /\ LastFetch.ok /\ ~LastFetch.some
    /\ cmd.result = OkNone

(***************************************************************************)
(* The named sets of the configuration file: the collection Vec<RepoRelaySet> *)
(* and its operations (MutRepoRelaySetsExt, RepoRelaySetsExt).             *)
(***************************************************************************)
\* the names given to the set operations and commands
SetNames == {"k", "l"}

\* the relay URLs and the repository addresses given to them
SetRelays == {"wss://r1", "wss://r2"}
SetNaddrs == {"c1", "c2"}

\* the order of String on the set names
NameRank(name) == IF name = "k" THEN 1 ELSE 2

\* RepoRelaySet::new: HashSet::from_iter of the addresses and of the relays
RepoRelaySet_new(name, addrs, relays) ==
    [name |-> name, naddrs |-> ToSet(addrs), relays |-> ToSet(relays)]

\* the result of an operation on the collection: Ok with the collection as the
\* operation left it, or the error with the collection as it left it
SetsOk(sets) == [ok |-> TRUE, err |-> "none", sets |-> sets]
SetsErr(err, sets) == [ok |-> FALSE, err |-> err, sets |-> sets]

RECURSIVE retain_other_names(_, _)
\* self.retain(|s| s.name != set_name)
retain_other_names(sets, set_name) ==
    IF sets = <<>> THEN <<>>
    ELSE IF Head(sets).name # set_name
    THEN <<Head(sets)>> \o retain_other_names(Tail(sets), set_name)
    ELSE retain_other_names(Tail(sets), set_name)

\* RepoRelaySetsExt::exists
exists(sets, set_name) == \E i \in 1..Len(sets) : sets[i].name = set_name

\* the index of the first set with the name (iter().find / iter_mut().find)
find_set(sets, name) ==
    CHOOSE i \in 1..Len(sets) :
        sets[i].name = name /\ \A j \in 1..(i-1) : sets[j].name # name

\* RepoRelaySetsExt::get_set
get_set(sets, name) ==
    IF exists(sets, name) THEN [ok |-> TRUE, err |-> "none", index |-> find_set(sets, name)]
    ELSE [ok |-> FALSE, err |-> "SetNotFound", index |-> 0]

\* push_set without the test of the name
push_set_unchecked(sets, name, repos, relays) ==
    SetsOk(Append(sets, RepoRelaySet_new(name, repos, relays)))

\* MutRepoRelaySetsExt::push_set
push_set(sets, name, repos, relays) ==
    IF exists(sets, name) THEN SetsErr("SetDuplicateName", sets)
    ELSE SetsOk(Append(sets, RepoRelaySet_new(name, repos, relays)))

\* MutRepoRelaySetsExt::remove_set
remove_set(sets, set_name) ==
    IF ~exists(sets, set_name) THEN SetsErr("SetNotFound", sets)
    ELSE SetsOk(retain_other_names(sets, set_name))

\* MutRepoRelaySetsExt::remove_relays
remove_relays(sets, name, relays) ==
    LET set == get_set(sets, name)
    IN IF ~set.ok THEN SetsErr(set.err, sets)
       ELSE SetsOk([sets EXCEPT ![set.index].relays = @ \ ToSet(relays)])

\* MutRepoRelaySetsExt::remove_naddrs
remove_naddrs(sets, name, addrs) ==
    LET set == get_set(sets, name)
    IN IF ~set.ok THEN SetsErr(set.err, sets)
       ELSE SetsOk([sets EXCEPT ![set.index].naddrs = @ \ ToSet(addrs)])

RECURSIVE sort_unstable(_)
\* names.sort_unstable()
sort_unstable(names) ==
    IF names = <<>> THEN <<>>
    ELSE LET i == CHOOSE i \in 1..Len(names) :
                     \A j \in 1..Len(names) : NameRank(names[i]) <= NameRank(names[j])
         IN <<names[i]>> \o sort_unstable(SubSeq(names, 1, i - 1) \o SubSeq(names, i + 1, Len(names)))

\* duplicate_in_sorted: items.windows(2).find(|w| w[0] == w[1])
duplicate_in_sorted(items) == \E i \in 1..(Len(items) - 1) : items[i] = items[i + 1]

\* RepoRelaySetsExt::ensure_names
ensure_names(sets) ==
    LET names == sort_unstable([i \in 1..Len(sets) |-> sets[i].name])
    IN IF duplicate_in_sorted(names) THEN SetsErr("SetDuplicateName", sets) ELSE SetsOk(sets)

\* CliConfig::post_sets (the addresses of the model are bare coordinates, which
\* dedup_naddrs leaves as they are)
post_sets(sets) == ensure_names(sets)

\* the argument lists of the operations, in the order given
RelayLists == {<<>>, <<"wss://r1">>, <<"wss://r2", "wss://r1">>}
NaddrLists == {<<>>, <<"c1">>, <<"c1", "c2">>}

\* the record of a set operation: its name, its arguments, the collection
\* before it and its result
SetOp(op, name, before, result) ==
    [op |-> op, name |-> name, before |-> before, ok |-> result.ok, err |-> result.err]

InitSets ==
    /\ store = <<>>
    /\ last = NoLast
    /\ res = NoRes
    /\ family = "none"
    /\ naddrs = <<>>
    /\ repoStore = {}
    /\ cmd = NoCmd
    /\ net = NoNet

PushSet ==
    /\ \E name \in SetNames, repos \in NaddrLists, relays \in RelayLists :
         LET r == push_set(store, name, repos, relays)
         IN store' = r.sets /\ last' = SetOp("push_set", name, store, r)
    /\ UNCHANGED <<res, family, naddrs, repoStore, cmd, net>>

RemoveSet ==
    /\ \E name \in SetNames :
         LET r == remove_set(store, name)
         IN store' = r.sets /\ last' = SetOp("remove_set", name, store, r)
    /\ UNCHANGED <<res, family, naddrs, repoStore, cmd, net>>

RemoveRelays ==
    /\ \E name \in SetNames, relays \in RelayLists :
         LET r == remove_relays(store, name, relays)
         IN store' = r.sets /\ last' = SetOp("remove_relays", name, store, r)
    /\ UNCHANGED <<res, family, naddrs, repoStore, cmd, net>>

RemoveNaddrs ==
    /\ \E name \in SetNames, addrs \in NaddrLists :
         LET r == remove_naddrs(store, name, addrs)
         IN store' = r.sets /\ last' = SetOp("remove_naddrs", name, store, r)
    /\ UNCHANGED <<res, family, naddrs, repoStore, cmd, net>>

NextSets == PushSet \/ RemoveSet \/ RemoveRelays \/ RemoveNaddrs

SpecSets == InitSets /\ [][NextSets]_vars

\* the names of the collection are pairwise distinct
DistinctNames(sets) ==
    \A i, j \in 1..Len(sets) : sets[i].name = sets[j].name => i = j

\* C24: after any sequence of push_set, remove_set, remove_relays and
\* remove_naddrs operations on a collection of sets whose names are pairwise
\* distinct, the names stay pairwise distinct; push_set with a name that
\* already exists returns SetDuplicateName, and remove_set, remove_relays or
\* remove_naddrs with a name that does not exist returns SetNotFound, in each
\* error case leaving the collection unchanged.
C24_SetNamesDistinct ==
    /\ DistinctNames(store)
    /\ ensure_names(store).ok
    /\ last # NoLast =>
          LET known == \E i \in 1..Len(last.before) : last.before[i].name = last.name
          IN /\ (last.op = "push_set" /\ known)
                   => ~last.ok /\ last.err = "SetDuplicateName" /\ store = last.before
             /\ (last.op \in {"remove_set", "remove_relays", "remove_naddrs"} /\ ~known)
                   => ~last.ok /\ last.err = "SetNotFound" /\ store = last.before
             /\ ~last.ok => store = last.before
             /\ (last.op = "push_set" /\ ~known)
                   => last.ok /\ Len(store) = Len(last.before) + 1
             /\ (last.op = "remove_set" /\ known)
                   => last.ok /\ Len(store) = Len(last.before) - 1
                      /\ \A i \in 1..Len(store) : store[i].name # last.name

\* push_set was refused for a name the collection of two sets already holds
C24_Witness ==
    /\ last # NoLast /\ last.op = "push_set" /\ last.err = "SetDuplicateName"
    /\ Len(store) = 2 /\ store = last.before

\* remove_relays was refused for a name the collection does not hold
C24_WitnessNotFound ==
    /\ last # NoLast /\ last.op = "remove_relays" /\ last.err = "SetNotFound"
    /\ Len(store) = 1 /\ store = last.before

(***************************************************************************)
(* The commands `sets new` and `sets remove` on the configuration file.    *)
(***************************************************************************)
\* RelayOrSet::Relay / NaddrOrSet::Naddr, and the Set variant of both
Item(v) == [set |-> FALSE, v |-> v]
SetRef(name) == [set |-> TRUE, v |-> name]

\* the result of resolving arguments: the flat list, or the error
Flat(list) == [ok |-> TRUE, err |-> "none", list |-> list]
FlatErr(err) == [ok |-> FALSE, err |-> err, list |-> <<>>]

\* RelayOrSet::get_relays
get_relays(arg, sets) ==
    IF ~arg.set THEN Flat(<<arg.v>>)
    ELSE LET set == get_set(sets, arg.v)
         IN IF ~set.ok THEN FlatErr("InvalidRelaysArg")
            ELSE IF sets[set.index].relays = {} THEN FlatErr("EmptySetRelays")
            ELSE Flat(SortedSeq(sets[set.index].relays))

\* NaddrOrSet::get_naddrs
get_naddrs(arg, sets) ==
    IF ~arg.set THEN Flat(<<arg.v>>)
    ELSE LET set == get_set(sets, arg.v)
         IN IF ~set.ok THEN FlatErr("InvalidNaddrArg")
            ELSE IF sets[set.index].naddrs = {} THEN FlatErr("EmptySetNaddrs")
            ELSE Flat(SortedSeq(sets[set.index].naddrs))

RECURSIVE flat_relays(_, _)
\* RelayOrSetVecExt::flat_relays: try_fold, the first error ends it
flat_relays(args, sets) ==
    IF args = <<>> THEN Flat(<<>>)
    ELSE LET init == flat_relays(SubSeq(args, 1, Len(args) - 1), sets)
             item == get_relays(args[Len(args)], sets)
         IN IF ~init.ok THEN init
            ELSE IF ~item.ok THEN item
            ELSE Flat(init.list \o item.list)

RECURSIVE flat_naddrs(_, _)
\* NaddrOrSetVecExt::flat_naddrs
flat_naddrs(args, sets) ==
    IF args = <<>> THEN Flat(<<>>)
    ELSE LET init == flat_naddrs(SubSeq(args, 1, Len(args) - 1), sets)
             item == get_naddrs(args[Len(args)], sets)
         IN IF ~init.ok THEN init
            ELSE IF ~item.ok THEN item
            ELSE Flat(init.list \o item.list)

\* CliConfig::dump: post_sets()? and the write of the file
dump(sets) == post_sets(sets)

\* sets::NewArgs::run: the result, and the sets the configuration file holds
\* after the command
sets_new(sets, name, relay_args, naddr_args) ==
    LET addrs == flat_naddrs(naddr_args, sets)
        relays == flat_relays(relay_args, sets)
    IN IF ~addrs.ok THEN SetsErr(addrs.err, sets)
       ELSE IF ~relays.ok THEN SetsErr(relays.err, sets)
       ELSE IF relays.list = <<>> /\ addrs.list = <<>> THEN SetsErr("NewEmptySet", sets)
       ELSE LET pushed == push_set(sets, name, addrs.list, relays.list)
            IN IF ~pushed.ok THEN SetsErr(pushed.err, sets)
               ELSE dump(pushed.sets)

\* sets::RemoveArgs::run
sets_remove(sets, name, relay_args, naddr_args) ==
    LET addrs == flat_naddrs(naddr_args, sets)
        relays == flat_relays(relay_args, sets)
    IN IF ~addrs.ok THEN SetsErr(addrs.err, sets)
       ELSE IF ~relays.ok THEN SetsErr(relays.err, sets)
       ELSE IF relays.list = <<>> /\ addrs.list = <<>>
       THEN LET removed == remove_set(sets, name)
            IN IF ~removed.ok THEN SetsErr(removed.err, sets) ELSE dump(removed.sets)
       ELSE LET r1 == IF relays.list # <<>> THEN remove_relays(sets, name, relays.list)
                      ELSE SetsOk(sets)
                r2 == IF ~r1.ok THEN r1
                      ELSE IF addrs.list # <<>> THEN remove_naddrs(r1.sets, name, addrs.list)
                      ELSE r1
            IN IF ~r2.ok THEN SetsErr(r2.err, sets) ELSE dump(r2.sets)

\* the --set-relay and --repo arguments of the commands
RelayArgLists == {<<>>, <<Item("wss://r1")>>, <<Item("wss://r2"), Item("wss://r1")>>, <<SetRef("k")>>}
NaddrArgLists == {<<>>, <<Item("c1")>>, <<SetRef("k")>>}

\* the configuration file is created empty
InitSetCommands ==
    /\ store = <<>>
    /\ last = NoLast
    /\ res = NoRes
    /\ family = "none"
    /\ naddrs = <<>>
    /\ repoStore = {}
    /\ cmd = NoCmd
    /\ net = NoNet

\* `sets new NAME [--set-relay ..] [--repo ..]`
SetsNew ==
    /\ \E name \in SetNames, relay_args \in RelayArgLists, naddr_args \in NaddrArgLists :
         LET r == sets_new(store, name, relay_args, naddr_args)
         IN store' = r.sets /\ last' = SetOp("sets new", name, store, r)
    /\ UNCHANGED <<res, family, naddrs, repoStore, cmd, net>>

\* `sets remove NAME [--set-relay ..] [--repo ..]`
SetsRemove ==
    /\ \E name \in SetNames, relay_args \in RelayArgLists, naddr_args \in NaddrArgLists :
         LET r == sets_remove(store, name, relay_args, naddr_args)
         IN store' = r.sets /\ last' = SetOp("sets remove", name, store, r)
    /\ UNCHANGED <<res, family, naddrs, repoStore, cmd, net>>

NextSetCommands == SetsNew \/ SetsRemove

SpecSetCommands == InitSetCommands /\ [][NextSetCommands]_vars

\* C30: after any sequence of `sets new` and `sets remove` commands, every
\* stored set contains at least one relay or one repository address, so that
\* resolving a stored set name never yields a set with no entries at all.
C30_NoEmptySetStored ==
    \A i \in 1..Len(store) : store[i].relays # {} \/ store[i].naddrs # {}

\* `sets remove` of the only relay of a set succeeded and left the set stored
\* without a relay and without an address: its name resolves to EmptySetRelays
\* and to EmptySetNaddrs
C30_EmptySetLeft ==
    /\ last # NoLast /\ last.op = "sets remove" /\ last.ok
    /\ \E i \in 1..Len(store) :
          /\ store[i].name = last.name
          /\ store[i].relays = {} /\ store[i].naddrs = {}
          /\ get_relays(SetRef(last.name), store).err = "EmptySetRelays"
          /\ get_naddrs(SetRef(last.name), store).err = "EmptySetNaddrs"
          /\ \E j \in 1..Len(last.before) :
                last.before[j].name = last.name /\ last.before[j].relays # {}

\* `sets new` without a relay and without an address was refused
C30_NewEmptySetRefused ==
    last # NoLast /\ last.op = "sets new" /\ last.err = "NewEmptySet" /\ store = last.before

(***************************************************************************)
(* Claims on sequences of status commands (checked under Spec).            *)
(***************************************************************************)
\* the status events of the store that were there before the last command
\* published its own
EarlierEvents == store \ {last.event}

\* every status event of the store is signed by a key that is authorized for
\* the root patch with the coordinates of the run (the maintainers of the
\* repositories among them)
SignersAuthorized == \A e \in store : e.pubkey \in ExpectedAuthorized(naddrs, "R")

\* a `patch apply` or `patch merge` succeeded before the last command
MergedEarlier == \E e \in EarlierEvents : e.kind = GitStatusApplied

\* C25: in sequential executions (each command resolves the status after the
\* previous command's event is stored, created_at strictly increasing, all
\* signers maintainers of the repository), once a `patch apply` or `patch
\* merge` has succeeded for a root patch R or for one revision of R, every
\* later `patch apply`, `patch merge` or `patch close` on R or on any revision
\* of R is rejected with InvalidStatus and publishes nothing.
C25_MergedIsFinal ==
    (/\ family = "patch"
     /\ last.op \in {"patch apply", "patch merge", "patch close"}
     /\ SignersAuthorized
     /\ MergedEarlier)
    => /\ last.pc = "failed" /\ last.err = "InvalidStatus"
       /\ last.event = NoEvent
       /\ "built" \notin ToSet(last.log) /\ "published" \notin ToSet(last.log)

\* a maintainer merged the revision V, and a later `patch close` of the root
\* patch was rejected
C25_Witness ==
    /\ family = "patch" /\ naddrs = <<"c1", "c2">>
    /\ last.op = "patch close" /\ last.id = "R"
    /\ last.pc = "failed" /\ last.err = "InvalidStatus"
    /\ \E e \in store :
          /\ e.kind = GitStatusApplied /\ e.pubkey = "o"
          /\ \E i \in 1..Len(e.tags) : is_reply(e.tags[i]) /\ e.tags[i].v = "V"

\* the root patch was applied, and a later `patch merge` of its revision
\* resolved Closed and was rejected
C25_WitnessRevision ==
    /\ family = "patch" /\ SignersAuthorized
    /\ last.op = "patch merge" /\ last.id = "V" /\ last.status = "Closed"
    /\ last.pc = "failed" /\ last.err = "InvalidStatus"
    /\ \E e \in store :
          /\ e.kind = GitStatusApplied
          /\ \A i \in 1..Len(e.tags) : ~is_reply(e.tags[i])

\* the status the command c would resolve for its entity from what the relays
\* return
StatusAfter(c, fetched) ==
    CASE c.op \in IssueOps -> fetch_issue_status(fetched)
      [] c.op \in PatchOps -> fetch_patch_status(fetched, c.revision)
      [] OTHER -> fetch_pr_status(fetched)

\* the last command was a status-transition command that succeeded: its guard
\* accepted and a relay stored its event
Succeeded ==
    /\ last.op \in StatusOps /\ last.pc = "published"
    /\ last.event \in store

\* C26: after a status-transition command to status S has succeeded (guard
\* accepted, event accepted by at least one relay), resolving the status of
\* the same entity against the same relays with the same coordinates returns
\* S (MergedApplied for a merged or applied revision), whoever signed the
\* command and whatever created_at values the earlier status events carry.
C26_ResolvesToNewStatus ==
    Succeeded =>
        \A fetched \in Orders(status_query(store, last)) :
            StatusAfter(last, fetched) = new_status(last.op)

\* a user who is none of the authorized keys closed the issue: the command
\* succeeded and the issue still resolves Open
C26_UnauthorizedSignerIgnored ==
    /\ Succeeded /\ last.op = "issue close"
    /\ last.user \notin ToSet(last.authorized)
    /\ last.status = "Open"
    /\ \A fetched \in Orders(status_query(store, last)) :
          StatusAfter(last, fetched) = "Open"

\* the command of an authorized user is resolved to its new status
C26_AuthorizedSignerCounts ==
    /\ Succeeded /\ last.op = "patch merge" /\ last.id = "V"
    /\ last.user \in ToSet(last.authorized)
    /\ \A fetched \in Orders(status_query(store, last)) :
          StatusAfter(last, fetched) = "MergedApplied"

(***************************************************************************)
(* Two status commands run at the same time by two users, each in its own  *)
(* process, against the same relays: the steps of patch_pr_status_command  *)
(* of the two runs interleave at their awaits.                             *)
(***************************************************************************)
\* the two processes
Procs == {"first", "second"}

\* the user of each process: the owner of the repositories, the author of the
\* patch
UserOf(p) == IF p = "first" THEN "o" ELSE "a"

\* both processes are given the Open root patch R and a subcommand that
\* moves it to MergedApplied
InitRace ==
    /\ store = {}
    /\ family = "patch"
    /\ naddrs \in {<<"c1">>, <<"c1", "c2">>}
    /\ repoStore = {"c1", "c2"}
    /\ cmd \in {[p \in Procs |-> NewCommand(op[p], "R", UserOf(p), OptionRelays)] :
                   op \in [Procs -> {"patch apply", "patch merge"}]}
    /\ res = <<>>
    /\ last = NoLast
    /\ net = NoNet

\* the process runs up to its status query and resolves the status from what
\* the relays hold at that moment
RaceResolveStatus(p) ==
    /\ cmd[p].pc = "start"
    /\ LET c3 == BeforeStatus(cmd[p].op, cmd[p].id, cmd[p].user, cmd[p].relays,
                              naddrs, repoStore)
       IN IF c3.pc = "failed" THEN cmd' = [cmd EXCEPT ![p] = c3] /\ res' = res
          ELSE \E fetched \in Orders(status_query(store, c3)) :
                 /\ cmd' = [cmd EXCEPT ![p] = step_status(c3, fetched)]
                 /\ res' = Append(res, p)
    /\ UNCHANGED <<store, family, naddrs, repoStore, last, net>>

\* check_fn(&current_status)? on the status resolved earlier
RaceCheckGuard(p) ==
    /\ cmd[p].pc = "status"
    /\ cmd' = [cmd EXCEPT ![p] = step_guard(cmd[p])]
    /\ UNCHANGED <<store, res, family, naddrs, repoStore, last, net>>

\* the status event is built, signed and sent
RacePublish(p) ==
    /\ cmd[p].pc = "guard"
    /\ LET built == step_build(cmd[p], store)
       IN \E outcome \in PlainOutcomes(write_relays(built)) :
            LET sent == send_event_to(built.event, write_relays(built), outcome)
            IN /\ cmd' = [cmd EXCEPT ![p] = step_send(built, sent)]
               /\ store' = Stored(store, built.event, ToSet(sent.success))
    /\ UNCHANGED <<res, family, naddrs, repoStore, last, net>>

NextRace ==
    \E p \in Procs :
        \/ RaceResolveStatus(p)
        \/ RaceCheckGuard(p)
        \/ RacePublish(p)

SpecRace == InitRace /\ [][NextRace]_vars

\* the MergedApplied status events published for the root patch R
MergedEvents ==
    {e \in store : /\ e.kind = GitStatusApplied
                   /\ \E i \in 1..Len(e.tags) : is_root(e.tags[i]) /\ e.tags[i].v = "R"}

\* C27: for every interleaving of two `patch apply` / `patch merge` commands
\* run by two authorized signers against the same Open root patch, at most one
\* MergedApplied status event for that root is published: the command that
\* resolves the status second is rejected by its guard.
C27_AtMostOneMerge ==
    /\ Cardinality(MergedEvents) <= 1
    /\ (Len(res) = 2 /\ cmd[res[2]].pc \notin {"start", "status"})
          => cmd[res[2]].pc = "failed" /\ cmd[res[2]].err = "InvalidStatus"

\* both processes resolved Open before either published, both guards
\* accepted, and the relays hold two MergedApplied events of two authorized
\* signers for R
C27_BothPublished ==
    /\ \A p \in Procs :
          /\ cmd[p].pc = "published" /\ cmd[p].status = "Open"
          /\ cmd[p].event \in MergedEvents
          /\ cmd[p].user \in ToSet(cmd[p].authorized)
    /\ Cardinality(MergedEvents) = 2

\* the second process resolved the status after the first had published, and
\* was rejected
C27_SecondRejected ==
    /\ Len(res) = 2
    /\ cmd[res[1]].pc = "published"
    /\ cmd[res[2]].pc = "failed" /\ cmd[res[2]].err = "InvalidStatus"
    /\ cmd[res[2]].status = "MergedApplied"

(***************************************************************************)
(* The publication of a patch series by `patch send`: future::join_all     *)
(* sends every patch event on its own, the results are collected in the    *)
(* order of the series and the first error, if any, is returned.           *)
(***************************************************************************)
\* the command line of the run: n patches, no original patch, no mentions
SeriesInput(n) ==
    [user |-> "a", relays |-> <<>>, mentions |-> {}, hashtags |-> {}, lists |-> {},
     accept |-> TRUE, patches |-> n, original |-> "none"]

\* the patches are built and the write relays are known: the sends start
InitSeries ==
    /\ store = {}
    /\ family = "patch"
    /\ naddrs = <<"c1">>
    /\ repoStore = {"c1", "c2"}
    /\ \E n \in 1..MaxPatches :
         LET built == patch_send(SeriesInput(n), naddrs, repoStore)
         IN cmd = [pc |-> "sending", events |-> built.events,
                   write_relays |-> built.write_relays,
                   results |-> [i \in 1..n |-> NotSent],
                   done |-> {}]
    /\ res = NoRes
    /\ last = NoLast
    /\ net = NoNet

\* client.send_event_to(event, relays_list.as_ref(), &write_relays).await of
\* one patch of the series
SendPatch ==
    /\ cmd.pc = "sending"
    /\ \E i \in (1..Len(cmd.events)) \ cmd.done :
         \E outcome \in Outcomes(cmd.write_relays) :
            LET sent == send_event_to(cmd.events[i], cmd.write_relays, outcome)
            IN /\ cmd' = [cmd EXCEPT !.results[i] = sent, !.done = @ \cup {i}]
               /\ store' = Stored(store, cmd.events[i], ToSet(outcome.success) \cap sent.to)
    /\ UNCHANGED <<res, family, naddrs, repoStore, last, net>>

\* .into_iter().collect::<N34Result<Vec<_>>>()?: Ok, or the first error in the
\* order of the series
collect_results(results) ==
    IF \A i \in 1..Len(results) : results[i].ok THEN [ok |-> TRUE, err |-> "none"]
    ELSE LET i == CHOOSE i \in 1..Len(results) :
                     ~results[i].ok /\ \A j \in 1..(i-1) : results[j].ok
         IN [ok |-> FALSE, err |-> results[i].err]

\* join_all returned: the command returns
CollectResults ==
    /\ cmd.pc = "sending"
    /\ cmd.done = 1..Len(cmd.events)
    /\ cmd' = [cmd EXCEPT !.pc = "returned"]
    /\ last' = [op |-> "patch send", ok |-> collect_results(cmd.results).ok,
                err |-> collect_results(cmd.results).err]
    /\ UNCHANGED <<store, res, family, naddrs, repoStore, net>>

NextSeries == SendPatch \/ CollectResults

SpecSeries == InitSeries /\ [][NextSeries]_vars

\* the patch events of the series that a relay accepted
AcceptedPatches == {i \in 1..Len(cmd.events) : cmd.events[i] \in store}

\* C28: `patch send` publishes a series atomically: when the command returns
\* an error because sending one patch event of the series failed, no patch
\* event of that series has been accepted by any relay; when it returns Ok,
\* every patch of the series was accepted by at least one relay.
C28_SeriesAtomic ==
    cmd.pc = "returned" =>
        /\ ~last.ok => AcceptedPatches = {}
        /\ last.ok => AcceptedPatches = 1..Len(cmd.events)

\* the command returned the error of the second patch while relays hold the
\* first and the third patch of the series
C28_PartOfSeriesPublished ==
    /\ cmd.pc = "returned" /\ ~last.ok
    /\ Len(cmd.events) = 3
    /\ AcceptedPatches = {1, 3}
    /\ ~cmd.results[2].ok /\ last.err = cmd.results[2].err

\* every send succeeded and every patch is held by a relay
C28_WholeSeriesPublished ==
    /\ cmd.pc = "returned" /\ last.ok
    /\ Len(cmd.events) = 3 /\ AcceptedPatches = {1, 2, 3}

(***************************************************************************)
(* The event address a publishing command prints: `repo announce` and the  *)
(* commands that print the address of the event they sent.                 *)
(***************************************************************************)
\* what the relays do with the event: the signer signs, the relays of one
\* subset accept
AcceptOutcomes(relays) ==
    {[signed |-> TRUE, success |-> SortedSeq(S), relays_list_ok |-> TRUE, strict |-> strict] :
        S \in SUBSET ToSet(relays), strict \in BOOLEAN}

\* what a command printed: the event address, and the relays the event was
\* sent to and accepted by
Printed(op, nevent, relays, sent) ==
    [op |-> op, ok |-> sent.ok, nevent |-> nevent, write_relays |-> relays,
     accepted |-> ToSet(sent.success)]

\* repo announce, AnnounceArgs::run: the address is made from the write relays (write_relays),
\* the event is sent, the address is printed
repo_announce(to_relays, outcome) ==
    LET nevent == new_nevent("A", to_relays)
        sent == send_event_to("A", to_relays, outcome)
    IN Printed("repo announce", nevent, to_relays, sent)

\* issue_status_command and the other commands that print
\* new_nevent(event_id, &success) after send_event_to(..).await?
publish_and_print(to_relays, outcome) ==
    LET sent == send_event_to("E", to_relays, outcome)
    IN Printed("status", new_nevent("E", sent.success), to_relays, sent)

InitPrint ==
    /\ store = {}
    /\ res = NoRes
    /\ family = "none"
    /\ naddrs = <<>>
    /\ repoStore = {}
    /\ last = NoLast
    /\ cmd = NoCmd
    /\ net = NoNet

\* `repo announce` (options.ensure_relays: at least one relay is given)
RepoAnnounce ==
    /\ last = NoLast
    /\ \E to_relays \in RelayInputs \ {<<>>} :
         \E outcome \in AcceptOutcomes(to_relays) :
            last' = repo_announce(to_relays, outcome)
    /\ UNCHANGED <<store, res, family, naddrs, repoStore, cmd, net>>

\* a status command, `issue new`, `pr new`, `pr update`, `reply`, `repo state`
PublishAndPrint ==
    /\ last = NoLast
    /\ \E to_relays \in RelayInputs :
         \E outcome \in AcceptOutcomes(to_relays) :
            last' = publish_and_print(to_relays, outcome)
    /\ UNCHANGED <<store, res, family, naddrs, repoStore, cmd, net>>

NextPrint == RepoAnnounce \/ PublishAndPrint

SpecPrint == InitPrint /\ [][NextPrint]_vars

\* C29: for every publishing command, the relay hints embedded in the event
\* address it prints (nevent) are at most 3 distinct URLs, each of them a
\* relay that accepted the published event.
C29_HintsAreAcceptingRelays ==
    (last # NoLast /\ last.ok) =>
        /\ Len(last.nevent.relays) <= 3
        /\ NoDuplicate(last.nevent.relays)
        /\ ToSet(last.nevent.relays) \subseteq last.accepted

\* `repo announce` printed an address whose three hints are relays that did
\* not accept the announcement, while another relay accepted it
C29_AnnounceHintsUnaccepted ==
    /\ last # NoLast /\ last.op = "repo announce" /\ last.ok
    /\ Len(last.nevent.relays) = 3
    /\ last.accepted # {}
    /\ ToSet(last.nevent.relays) \cap last.accepted = {}

\* a status command printed three hints out of four relays that accepted
C29_StatusHintsAccepted ==
    /\ last # NoLast /\ last.op = "status" /\ last.ok
    /\ Cardinality(last.accepted) = 4
    /\ Len(last.nevent.relays) = 3
    /\ ToSet(last.nevent.relays) \subseteq last.accepted
====
